---- MODULE Spec2Model ----
(***************************************************************************)
(* A model of the Redis auth-state store: the batch executor               *)
(* (BatchOperationManager.executeBatch), the batch window (BatchManager),  *)
(* the TTL cache (MemoryCache) and the per-session read/write path of      *)
(* useRedisAuthState with its session cache and its Redis connection.      *)
(***************************************************************************)
EXTENDS Integers, Sequences, FiniteSets, TLC

VARIABLES
    ebRedis,        \* BatchOperationManager.redis: the client type, "none" before construction
    ebPc,           \* position of executeBatch: "idle", "exec" (awaiting pipeline.exec), "done"
    ebOperations,   \* the operations argument of the running executeBatch call
    ebResults,      \* results, the reply of pipeline.exec (Null before it returns)
    ebError,        \* the error pipeline.exec raised (Null when it returned)
    ebLog,          \* per operation, the resolve/reject calls made on it, in order
    redisData,      \* the keys of the store behind BatchOperationManager.redis
    batchSize,      \* BatchManager.batchSize, 0 before construction
    operations,     \* BatchManager.operations, the queue of the current window
    flushTimer,     \* BatchManager.flushTimer: "null" or "armed"
    bmEnqueued,     \* number of addOperation calls so far; the n-th operation has id n
    bmResolved,     \* per operation id, how often its resolve was called
    bmFlushes,      \* history: the operations of every flush, with what triggered it
    bmTimerFor,     \* history: the id of the operation whose enqueue armed the timer
    now,            \* Date.now()
    mcTtl,          \* MemoryCache.ttl, -1 before construction
    mcCache,        \* MemoryCache.cache
    hitCount,       \* MemoryCache.hitCount
    missCount,      \* MemoryCache.missCount
    mcRet,          \* the last MemoryCache.get: its key, the entry found, the time, the value returned
    sessionCaches,  \* the registry sessionCaches: per session id the number of its map, 0 for none
    cacheMaps,      \* the cache maps ever created, by number
    handles,        \* per handle slot, the closure of a useRedisAuthState call
    store,          \* the keys of the Redis store
    conn,           \* per handle, the requests in flight on its connection, oldest first
    ret,            \* what the last step returned from readData, writeData, bulkRead or bulkWrite, if it did
    settled,        \* history: the last write that returned with no write of its key started since
    calls,          \* history: the number of calls made through the handles so far
    writer,         \* history: per store key, the prefix and session that last set it
    sessionPools,   \* the registry sessionPools: per session id the number of its pool, 0 for none
    pools,          \* the RedisConnectionPool objects ever constructed, by number
    clients,        \* the number of clients createRedisClient has returned; they are numbered from 1
    quitCalled,     \* history: the clients on which destroy has called quit
    quitFailed,     \* history: the clients whose quit has thrown
    tasks,          \* per caller, the call it is suspended in
    got,            \* per caller, the pool its last getSessionPool returned, 0 for none
    held,           \* history: per caller, the connections getConnection gave it and it has not released
    refs,           \* per caller, the connections it was ever given
    plRet,          \* what the last step returned from a function of the pool or the registry, if it did
    cleanups,       \* history: per session id, the number of cleanupSession calls
    lastCleanup,    \* history: the arguments of the latest cleanupSession call
    cdIn,           \* the value the last serialize or fastSerialize call was given
    cdMode,         \* its compression argument
    cdPair,         \* "serialize" or "fast": the pair of functions in use
    cdText,         \* the text it returned
    cdOut,          \* what the matching deserialize call returned for that text
    exRedis,        \* options.redis of the expiring writes: its constructor name and its methods
    exTtl,          \* options.ttl
    exStore,        \* per key of that client's store, the value and the expiry it was set with
    exCache,        \* the session cache of that handle
    exTrace,        \* the calls on the client and on console the last write made, in order
    exRet,          \* how the last writeData or bulkWrite ended
    kyStore,        \* per transport key, the session, category and id state.keys.set last wrote it for
    kyRet,          \* the last state.keys.get: its session, type and id, and whose value it returned
    kySets          \* history: the number of state.keys.set calls

ebVars == <<ebRedis, ebPc, ebOperations, ebResults, ebError, ebLog, redisData>>
bmVars == <<batchSize, operations, flushTimer, bmEnqueued, bmResolved, bmFlushes, bmTimerFor>>
mcVars == <<mcTtl, mcCache, hitCount, missCount, mcRet>>

ssVars == <<sessionCaches, cacheMaps, handles, store, conn, ret, settled, calls, writer>>

plVars == <<sessionPools, pools, clients, quitCalled, quitFailed, tasks, got, held, refs, plRet, cleanups, lastCleanup>>

cdVars == <<cdIn, cdMode, cdPair, cdText, cdOut>>

exVars == <<exRedis, exTtl, exStore, exCache, exTrace, exRet>>

kyVars == <<kyStore, kyRet, kySets>>

vars == <<ebVars, bmVars, mcVars, ssVars, plVars, cdVars, exVars, kyVars, now>>

notEb == <<bmVars, mcVars, ssVars, plVars, cdVars, exVars, kyVars, now>>
notBm == <<ebVars, mcVars, ssVars, plVars, cdVars, exVars, kyVars, now>>
notMc == <<ebVars, bmVars, ssVars, plVars, cdVars, exVars, kyVars>>
notSs == <<ebVars, bmVars, mcVars, plVars, cdVars, exVars, kyVars>>
notPl == <<ebVars, bmVars, mcVars, cdVars, exVars, kyVars>>
notCd == <<ebVars, bmVars, mcVars, ssVars, plVars, exVars, kyVars, now>>
notEx == <<ebVars, bmVars, mcVars, ssVars, plVars, cdVars, kyVars, now>>
notKy == <<ebVars, bmVars, mcVars, ssVars, plVars, cdVars, exVars, now>>

----------------------------------------------------------------------------
(* Bounds *)

MaxOps == 3
MaxEnqueued == 5
MaxBatchSize == 3
MaxTime == 2
MaxTtl == 1
MaxGets == 3
MaxHandles == 2
MaxInFlight == 2
MaxBulkKeys == 1
CacheTTL == 1
MaxCalls == 4
MaxCallers == 2
MaxPoolSize == 2
MaxPools == 2
MaxClients == 3
MaxCleanups == 1
MaxDepth == 2
MaxByte == 2
MaxExpiry == 2
MaxRejects == 2
MaxKeySets == 2
FifteenSeconds == 15000

----------------------------------------------------------------------------
(* JavaScript values, as far as the code inspects them *)

Null == [t |-> "null"]                       \* null and undefined
Str(s) == [t |-> "str", s |-> s]
Num(n) == [t |-> "num", n |-> n]
Bool(b) == [t |-> "bool", b |-> b]
Char(s, i) == [t |-> "char", of |-> s, at |-> i]   \* s[i] of a non-empty string
Pair(e, r) == [t |-> "pair", err |-> e, res |-> r] \* the two-element array [e, r]
Err(e) == [t |-> "error", e |-> e]
Throw == [t |-> "throw"]                     \* evaluating the expression threw

\* no function of a session handle returned in the last step
NoReturn == [h |-> 0, fn |-> "none", arg |-> Null, out |-> "none", val |-> Null, trips |-> 0]

TypeError == Err("TypeError")
ConnError == Err("ECONNRESET")
CmdError == Err("ERR")

\* if (v): JavaScript truthiness
Truthy(v) ==
    CASE v.t = "null" -> FALSE
      [] v.t = "bool" -> v.b
      [] v.t = "num" -> v.n # 0
      [] v.t = "str" -> v.s # ""
      [] OTHER -> TRUE

\* v[i] for i in {0, 1}: a property read on null throws a TypeError, an array
\* yields its element, a string its character, a number undefined
Idx(v, i) ==
    CASE v.t = "null" -> Throw
      [] v.t = "pair" -> IF i = 0 THEN v.err ELSE v.res
      [] v.t = "str" -> IF i < Len(v.s) THEN Char(v.s, i) ELSE Null
      [] OTHER -> Null

\* arr[i] of a JavaScript array held as a sequence, i counted from 0
ArrGet(arr, i) == IF i + 1 \in DOMAIN arr THEN arr[i + 1] ELSE Null

----------------------------------------------------------------------------
(* The store behind a client, and the reply of a MULTI/EXEC round trip *)

ClientTypes == {"ioredis", "redis"}
BatchKeys == {"a", "b"}
Payloads == {"x"}

OpChoices ==
    [type : {"get", "del"}, key : BatchKeys, value : {Null}]
        \cup [type : {"set"}, key : BatchKeys, value : {Str(p) : p \in Payloads}]

OpLists == UNION {[1..n -> OpChoices] : n \in 0..MaxOps}

\* what the store answers to one command, and the data after it
CommandReply(op, data) ==
    CASE op.type = "get" -> data[op.key]
      [] op.type = "set" -> Str("OK")
      [] op.type = "del" -> Num(IF data[op.key] = Null THEN 0 ELSE 1)

CommandEffect(op, data) ==
    CASE op.type = "get" -> data
      [] op.type = "set" -> [data EXCEPT ![op.key] = op.value]
      [] op.type = "del" -> [data EXCEPT ![op.key] = Null]

\* ioredis answers exec() with one [err, result] pair per queued command;
\* node-redis answers with the bare replies
ReplyEntry(client, failed, reply) ==
    IF client = "ioredis"
    THEN (IF failed THEN Pair(CmdError, Null) ELSE Pair(Null, reply))
    ELSE reply

RECURSIVE MultiExec(_, _, _, _, _, _)
MultiExec(client, ops, errs, i, data, acc) ==
    IF i > Len(ops) THEN [data |-> data, results |-> acc]
    ELSE IF i \in errs
         THEN MultiExec(client, ops, errs, i + 1, data,
                        Append(acc, ReplyEntry(client, TRUE, Null)))
         ELSE MultiExec(client, ops, errs, i + 1, CommandEffect(ops[i], data),
                        Append(acc, ReplyEntry(client, FALSE, CommandReply(ops[i], data))))

----------------------------------------------------------------------------
(* BatchOperationManager.executeBatch *)

Resolve(v) == [cb |-> "resolve", v |-> v]
Reject(e) == [cb |-> "reject", v |-> e]

\* the catch block: operations.forEach(op => op.reject(error))
RejectAllFirstOnly(log, error) ==
    [i \in DOMAIN log |-> IF i = 1 THEN Append(log[i], Reject(error)) ELSE log[i]]

RejectAll(log, error) ==
    [i \in DOMAIN log |-> Append(log[i], Reject(error))]

\* the loop over operations that hands out the results; getIndex counts the
\* get operations met so far. Yields the calls made and what was thrown.
RECURSIVE ProcessResults(_, _, _, _, _)
ProcessResults(ops, results, i, getIndex, log) ==
    IF i > Len(ops) THEN [log |-> log, thrown |-> Null]
    ELSE IF ops[i].type = "get"
         THEN LET result == ArrGet(results, getIndex)
                  e0 == Idx(result, 0)
              IN  IF e0 = Throw
                  THEN [log |-> log, thrown |-> TypeError]
                  ELSE IF Truthy(e0)
                       THEN ProcessResults(ops, results, i + 1, getIndex + 1,
                                [log EXCEPT ![i] = Append(@, Reject(e0))])
                       ELSE ProcessResults(ops, results, i + 1, getIndex + 1,
                                [log EXCEPT ![i] = Append(@, Resolve(Idx(result, 1)))])
         ELSE ProcessResults(ops, results, i + 1, getIndex,
                  [log EXCEPT ![i] = Append(@, Resolve(Bool(TRUE)))])

\* everything after `await pipeline.exec()` returned results
AfterExec(ops, results, log) ==
    LET p == ProcessResults(ops, results, 1, 0, log)
    IN  IF p.thrown = Null THEN p.log ELSE RejectAll(p.log, p.thrown)

NewBatchOperationManager(client) ==
    /\ ebRedis = "none"
    /\ ebRedis' = client
    /\ UNCHANGED <<ebPc, ebOperations, ebResults, ebError, ebLog, redisData, notEb>>

\* the call, up to `await pipeline.exec()`
ExecuteBatch(ops) ==
    /\ ebRedis # "none"
    /\ ebPc = "idle"
    /\ ebOperations' = ops
    /\ ebLog' = [i \in DOMAIN ops |-> <<>>]
    /\ ebResults' = Null
    /\ ebError' = Null
    /\ ebPc' = IF Len(ops) = 0 THEN "done" ELSE "exec"
    /\ UNCHANGED <<ebRedis, redisData, notEb>>

\* pipeline.exec() rejects: the round trip itself failed
ExecRaises ==
    /\ ebPc = "exec"
    /\ ebError' = ConnError
    /\ ebLog' = RejectAll(ebLog, ConnError)
    /\ ebPc' = "done"
    /\ UNCHANGED <<ebRedis, ebOperations, ebResults, redisData, notEb>>

\* pipeline.exec() resolves; the commands in errs failed at the store
ExecReturns(errs) ==
    /\ ebPc = "exec"
    /\ errs \subseteq DOMAIN ebOperations
    /\ ebRedis = "redis" => errs = {}
    /\ LET r == MultiExec(ebRedis, ebOperations, errs, 1, redisData, <<>>)
       IN  /\ redisData' = r.data
           /\ ebResults' = r.results
           /\ ebLog' = AfterExec(ebOperations, r.results, ebLog)
    /\ ebPc' = "done"
    /\ UNCHANGED <<ebRedis, ebOperations, ebError, notEb>>

\* the promise of executeBatch settles; the call's locals are gone
ExecuteBatchReturn ==
    /\ ebPc = "done"
    /\ ebPc' = "idle"
    /\ ebOperations' = <<>>
    /\ ebLog' = <<>>
    /\ ebResults' = Null
    /\ ebError' = Null
    /\ UNCHANGED <<ebRedis, redisData, notEb>>

InitBatch ==
    /\ ebRedis = "none"
    /\ ebPc = "idle"
    /\ ebOperations = <<>>
    /\ ebResults = Null
    /\ ebError = Null
    /\ ebLog = <<>>
    /\ redisData = [k \in BatchKeys |-> Null]

NextBatch ==
    \/ \E c \in ClientTypes : NewBatchOperationManager(c)
    \/ \E ops \in OpLists : ExecuteBatch(ops)
    \/ ExecRaises
    \/ ExecuteBatchReturn
    \/ \E errs \in SUBSET (1..MaxOps) : ExecReturns(errs)


----------------------------------------------------------------------------
(* BatchManager: the batch window *)

OpTypes == {"set", "get", "del"}

\* this.operations.length >= this.batchSize
SizeReachedStrict(len, size) == len > size

SizeReached(len, size) == len >= size

\* else if (!this.flushTimer) this.flushTimer = setTimeout(...)
StartTimerNever(timer) == timer

StartTimer(timer) == IF timer = "null" THEN "armed" ELSE timer

\* flush() on the queue ops: the timer is cleared, the whole queue is taken
\* and every operation taken is resolved
FlushKeepsQueue(ops, by) ==
    /\ flushTimer' = "null"
    /\ bmTimerFor' = 0
    /\ operations' = ops
    /\ bmResolved' = [id \in DOMAIN bmResolved |->
                        bmResolved[id] + Cardinality({i \in DOMAIN ops : ops[i].id = id})]
    /\ bmFlushes' = IF Len(ops) = 0 THEN bmFlushes
                    ELSE Append(bmFlushes, [ops |-> [i \in DOMAIN ops |-> ops[i].id], by |-> by])

Flush(ops, by) ==
    /\ flushTimer' = "null"
    /\ bmTimerFor' = 0
    /\ operations' = <<>>
    /\ bmResolved' = [id \in DOMAIN bmResolved |->
                        bmResolved[id] + Cardinality({i \in DOMAIN ops : ops[i].id = id})]
    /\ bmFlushes' = IF Len(ops) = 0 THEN bmFlushes
                    ELSE Append(bmFlushes, [ops |-> [i \in DOMAIN ops |-> ops[i].id], by |-> by])

NewBatchManager(size) ==
    /\ batchSize = 0
    /\ batchSize' = size
    /\ UNCHANGED <<operations, flushTimer, bmEnqueued, bmResolved, bmFlushes, bmTimerFor, notBm>>

AddOperation(type) ==
    /\ batchSize > 0
    /\ bmEnqueued < MaxEnqueued
    /\ bmEnqueued' = bmEnqueued + 1
    /\ LET pushed == Append(operations, [id |-> bmEnqueued + 1, type |-> type])
       IN  IF SizeReached(Len(pushed), batchSize)
           THEN Flush(pushed, "size")
           ELSE /\ operations' = pushed
                /\ flushTimer' = StartTimer(flushTimer)
                /\ bmTimerFor' = IF flushTimer = "null" /\ flushTimer' = "armed"
                                 THEN bmEnqueued + 1 ELSE bmTimerFor
                /\ UNCHANGED <<bmResolved, bmFlushes>>
    /\ UNCHANGED <<batchSize, notBm>>

\* the 10 ms timeout fires: () => this.flush()
TimerFires ==
    /\ flushTimer = "armed"
    /\ Flush(operations, "timer")
    /\ UNCHANGED <<batchSize, bmEnqueued, notBm>>

InitBatchManager ==
    /\ batchSize = 0
    /\ operations = <<>>
    /\ flushTimer = "null"
    /\ bmEnqueued = 0
    /\ bmResolved = [id \in 1..MaxEnqueued |-> 0]
    /\ bmFlushes = <<>>
    /\ bmTimerFor = 0

NextBatchManager ==
    \/ \E size \in 1..MaxBatchSize : NewBatchManager(size)
    \/ \E type \in OpTypes : AddOperation(type)
    \/ TimerFires

----------------------------------------------------------------------------
(* MemoryCache: the cache with a time to live *)

MCKeys == {"k1", "k2"}
MCData == {"d1", "d2"}
NoEntry == [t |-> "none"]
Entry(data, timestamp) == [t |-> "entry", data |-> data, timestamp |-> timestamp]

\* Date.now() - entry.timestamp > this.ttl
ExpiredReversed(t, timestamp, ttl) == timestamp - t > ttl

Expired(t, timestamp, ttl) == t - timestamp > ttl

NewMemoryCache(ttl) ==
    /\ mcTtl = -1
    /\ mcTtl' = ttl
    /\ UNCHANGED <<mcCache, hitCount, missCount, mcRet, now, notMc>>

MCGet(key) ==
    /\ mcTtl >= 0
    /\ hitCount + missCount < MaxGets
    /\ LET entry == mcCache[key]
       IN  IF entry = NoEntry
           THEN /\ missCount' = missCount + 1
                /\ mcRet' = [key |-> key, entry |-> entry, at |-> now, val |-> Null]
                /\ UNCHANGED <<mcCache, hitCount>>
           ELSE IF Expired(now, entry.timestamp, mcTtl)
           THEN /\ mcCache' = [mcCache EXCEPT ![key] = NoEntry]
                /\ missCount' = missCount + 1
                /\ mcRet' = [key |-> key, entry |-> entry, at |-> now, val |-> Null]
                /\ UNCHANGED hitCount
           ELSE /\ hitCount' = hitCount + 1
                /\ mcRet' = [key |-> key, entry |-> entry, at |-> now, val |-> Str(entry.data)]
                /\ UNCHANGED <<mcCache, missCount>>
    /\ UNCHANGED <<mcTtl, now, notMc>>

MCSet(key, data) ==
    /\ mcTtl >= 0
    /\ mcCache' = [mcCache EXCEPT ![key] = Entry(data, now)]
    /\ UNCHANGED <<mcTtl, hitCount, missCount, mcRet, now, notMc>>

MCDeleteResets(key) ==
    /\ mcTtl >= 0
    /\ mcCache' = [mcCache EXCEPT ![key] = NoEntry]
    /\ hitCount' = 0
    /\ missCount' = 0
    /\ UNCHANGED <<mcTtl, mcRet, now, notMc>>

MCDelete(key) ==
    /\ mcTtl >= 0
    /\ mcCache' = [mcCache EXCEPT ![key] = NoEntry]
    /\ UNCHANGED <<mcTtl, hitCount, missCount, mcRet, now, notMc>>

MCClear ==
    /\ mcTtl >= 0
    /\ mcCache' = [k \in MCKeys |-> NoEntry]
    /\ hitCount' = 0
    /\ missCount' = 0
    /\ UNCHANGED <<mcTtl, mcRet, now, notMc>>

\* the setInterval callback of startCleanup
MCCleanup ==
    /\ mcTtl >= 0
    /\ mcCache' = [k \in MCKeys |->
                     IF mcCache[k] # NoEntry /\ Expired(now, mcCache[k].timestamp, mcTtl)
                     THEN NoEntry ELSE mcCache[k]]
    /\ UNCHANGED <<mcTtl, hitCount, missCount, mcRet, now, notMc>>

\* time passes
Tick ==
    /\ now < MaxTime
    /\ now' = now + 1
    /\ ret' = NoReturn
    /\ UNCHANGED <<ebVars, bmVars, mcVars, sessionCaches, cacheMaps, handles, store, conn,
                   settled, calls, writer, plVars, cdVars, exVars, kyVars>>

InitMemoryCache ==
    /\ mcTtl = -1
    /\ mcCache = [k \in MCKeys |-> NoEntry]
    /\ hitCount = 0
    /\ missCount = 0
    /\ mcRet = [key |-> "k1", entry |-> NoEntry, at |-> 0, val |-> Null]

NextMemoryCache ==
    \/ \E ttl \in 0..MaxTtl : NewMemoryCache(ttl)
    \/ \E key \in MCKeys : MCGet(key)
    \/ \E key \in MCKeys, data \in MCData : MCSet(key, data)
    \/ \E key \in MCKeys : MCDelete(key)
    \/ MCClear
    \/ MCCleanup
    \/ Tick

----------------------------------------------------------------------------
(* JSON and the serializers of the read/write path *)

Obj(d) == [t |-> "obj", d |-> d]             \* a plain object with content d
Buf(d) == [t |-> "buf", d |-> d]             \* a Buffer with bytes d

PlainJson(d) == [j |-> "plain", d |-> d]     \* {"d": d}
BufferJson(d) == [j |-> "buffer", d |-> d]   \* {"type": "Buffer", "data": [d]}
JsonTrees == {PlainJson(d) : d \in 1..2} \cup {BufferJson(d) : d \in 1..2}

\* the text JSON.stringify writes for a tree, and JSON.parse of a text
JsonText(tree) ==
    IF tree.j = "buffer"
    THEN "{type:Buffer,data:[" \o ToString(tree.d) \o "]}"
    ELSE "{d:" \o ToString(tree.d) \o "}"

JsonParse(text) ==
    IF \E tree \in JsonTrees : JsonText(tree) = text
    THEN CHOOSE tree \in JsonTrees : JsonText(tree) = text
    ELSE Throw

\* fastSerialize: a Buffer is written as {type: 'Buffer', data: [...]}
FastSerialize(data) ==
    Str(JsonText(IF data.t = "buf" THEN BufferJson(data.d) ELSE PlainJson(data.d)))

\* fastDeserialize: an object of type 'Buffer' is turned back into a Buffer
FastDeserialize(data) ==
    LET tree == JsonParse(data.s)
    IN  IF tree = Throw THEN Throw
        ELSE IF tree.j = "buffer" THEN Buf(tree.d) ELSE Obj(tree.d)

----------------------------------------------------------------------------
(* serialize/deserialize of utils.ts and fastSerialize/fastDeserialize on
   nested values: JSON.stringify with a replacer, JSON.parse with a reviver,
   CompressionUtils *)

JArr(items) == [t |-> "array", items |-> items]
JObj(keys, vals) == [t |-> "object", keys |-> keys, vals |-> vals]   \* own properties, in order
NodeBuffer(bytes) == [t |-> "Buffer", bytes |-> bytes]
U8(bytes) == [t |-> "Uint8Array", bytes |-> bytes]
Undefined == [t |-> "undefined"]

Scalars == {Num(1), Str("a"), Bool(TRUE), Null}
ByteStrings == {<<>>} \cup {<<b>> : b \in 1..MaxByte}
Binary == {NodeBuffer(b) : b \in ByteStrings} \cup {U8(b) : b \in ByteStrings}

\* the plain object {type: 'Buffer', data: [1]}
BufferLookalike == JObj(<<"type", "data">>, <<Str("Buffer"), JArr(<<Num(1)>>)>>)

\* the values with one more level of nesting than those of the set below
Nest(below) ==
    below \cup {JArr(<<>>)} \cup {JArr(<<x>>) : x \in below}
          \cup {JObj(<<"a">>, <<x>>) : x \in below}

RECURSIVE ValuesOfDepth(_)
ValuesOfDepth(n) ==
    IF n = 0 THEN Scalars \cup Binary \cup {BufferLookalike}
    ELSE Nest(ValuesOfDepth(n - 1))

JsValues == ValuesOfDepth(MaxDepth)

NumArray(bytes) == JArr([i \in DOMAIN bytes |-> Num(bytes[i])])

\* value.p for a property name p
Prop(value, p) ==
    IF value.t = "object" /\ \E i \in DOMAIN value.keys : value.keys[i] = p
    THEN value.vals[CHOOSE i \in DOMAIN value.keys : value.keys[i] = p]
    ELSE Undefined

\* Buffer.prototype.toJSON, which JSON.stringify calls before the replacer
ToJSON(value) ==
    IF value.t = "Buffer"
    THEN JObj(<<"type", "data">>, <<Str("Buffer"), NumArray(value.bytes)>>)
    ELSE value

\* BufferJSON.replacer
BufferJSONReplacer(value) ==
    IF value.t = "object" /\ Prop(value, "type") = Str("Buffer") /\ Prop(value, "data").t = "array"
    THEN JObj(<<"type", "data">>, <<Str("Buffer"), Prop(value, "data")>>)
    ELSE IF value.t \in {"Uint8Array", "Buffer"}
    THEN JObj(<<"type", "data">>, <<Str("Buffer"), NumArray(value.bytes)>>)
    ELSE value

\* Array.from(x) for the values the replacer of fastSerialize passes it
ArrayFrom(x) ==
    CASE x.t = "array" -> x
      [] x.t \in {"Buffer", "Uint8Array"} -> NumArray(x.bytes)
      [] OTHER -> JArr(<<>>)

\* the replacer of fastSerialize: a Uint8Array has neither the constructor
\* name 'Buffer' nor a property type
FastReplacer(value) ==
    IF value.t = "Buffer"
    THEN JObj(<<"type", "data">>, <<Str("Buffer"), NumArray(value.bytes)>>)
    ELSE IF value.t = "object" /\ Prop(value, "type") = Str("Buffer")
    THEN JObj(<<"type", "data">>,
              <<Str("Buffer"),
                ArrayFrom(IF Truthy(Prop(value, "data")) /\ Prop(value, "data") # Undefined
                          THEN Prop(value, "data") ELSE value)>>)
    ELSE value

Replace(replacer, value) ==
    IF replacer = "BufferJSON" THEN BufferJSONReplacer(value) ELSE FastReplacer(value)

IndexKeys == <<"0", "1", "2">>

\* SerializeJSONProperty: toJSON, then the replacer, then by the type of the
\* result; a typed array is written as an object with its indices as keys
RECURSIVE JsonTree(_, _)
JsonTree(value, replacer) ==
    LET v == Replace(replacer, ToJSON(value))
    IN  CASE v.t = "array" ->
                JArr([i \in DOMAIN v.items |-> JsonTree(v.items[i], replacer)])
          [] v.t = "object" ->
                JObj(v.keys, [i \in DOMAIN v.vals |-> JsonTree(v.vals[i], replacer)])
          [] v.t \in {"Uint8Array", "Buffer"} ->
                JObj(SubSeq(IndexKeys, 1, Len(v.bytes)), [i \in DOMAIN v.bytes |-> Num(v.bytes[i])])
          [] OTHER -> v

\* the JSON text of a tree
RECURSIVE TreeText(_)
RECURSIVE JoinItems(_, _)
RECURSIVE JoinMembers(_, _, _)
JoinItems(items, i) ==
    IF i > Len(items) THEN ""
    ELSE (IF i > 1 THEN "," ELSE "") \o TreeText(items[i]) \o JoinItems(items, i + 1)
JoinMembers(keys, vals, i) ==
    IF i > Len(keys) THEN ""
    ELSE (IF i > 1 THEN "," ELSE "") \o "'" \o keys[i] \o "':" \o TreeText(vals[i])
            \o JoinMembers(keys, vals, i + 1)
TreeText(tree) ==
    CASE tree.t = "null" -> "null"
      [] tree.t = "bool" -> IF tree.b THEN "true" ELSE "false"
      [] tree.t = "num" -> ToString(tree.n)
      [] tree.t = "str" -> "'" \o tree.s \o "'"
      [] tree.t = "array" -> "[" \o JoinItems(tree.items, 1) \o "]"
      [] tree.t = "object" -> "{" \o JoinMembers(tree.keys, tree.vals, 1) \o "}"

\* JSON.stringify(value, replacer)
Stringify(value, replacer) == TreeText(JsonTree(value, replacer))

\* the trees and the texts JSON.stringify can write for the values
Replacers == {"BufferJSON", "fast"}
WrittenTrees == {JsonTree(v, r) : v \in JsValues, r \in Replacers}
WrittenTexts == {TreeText(tree) : tree \in WrittenTrees}

\* the bytes new Uint8Array(array) and Buffer.from(array) hold
BytesOf(array) ==
    [i \in DOMAIN array.items |-> IF array.items[i].t = "num" THEN array.items[i].n % 256 ELSE 0]

\* BufferJSON.reviver
BufferJSONReviver(value) ==
    IF value.t = "object" /\ Prop(value, "type") = Str("Buffer") /\ Prop(value, "data").t = "array"
    THEN U8(BytesOf(Prop(value, "data")))
    ELSE value

\* the reviver of fastDeserialize, where Buffer is defined
FastReviver(value) ==
    IF value.t = "object" /\ Prop(value, "type") = Str("Buffer")
    THEN IF Prop(value, "data").t = "array"
         THEN NodeBuffer(BytesOf(Prop(value, "data")))
         ELSE Throw
    ELSE value

Revive(reviver, value) ==
    IF reviver = "BufferJSON" THEN BufferJSONReviver(value) ELSE FastReviver(value)

\* InternalizeJSONProperty: the members first, then the holder
RECURSIVE Internalize(_, _)
Internalize(tree, reviver) ==
    CASE tree.t = "array" ->
            LET items == [i \in DOMAIN tree.items |-> Internalize(tree.items[i], reviver)]
            IN  IF \E i \in DOMAIN items : items[i] = Throw THEN Throw
                ELSE Revive(reviver, JArr(items))
      [] tree.t = "object" ->
            LET vals == [i \in DOMAIN tree.vals |-> Internalize(tree.vals[i], reviver)]
            IN  IF \E i \in DOMAIN vals : vals[i] = Throw THEN Throw
                ELSE Revive(reviver, JObj(tree.keys, vals))
      [] OTHER -> Revive(reviver, tree)

\* JSON.parse(text, reviver)
Parse(text, reviver) ==
    IF \E tree \in WrittenTrees : TreeText(tree) = text
    THEN Internalize(CHOOSE tree \in WrittenTrees : TreeText(tree) = text, reviver)
    ELSE Throw

\* the compression argument: false, a level, 'lz4'
CompressionModes == {Bool(FALSE), Num(0), Num(6), Str("lz4")}

\* btoa of the UTF-8 bytes of a text, and atob with the decoding of the bytes
Btoa(text) == "b64(" \o text \o ")"
Atob(data) ==
    IF \E text \in WrittenTexts : Btoa(text) = data
    THEN CHOOSE text \in WrittenTexts : Btoa(text) = data
    ELSE "throw"

\* CompressionUtils.compress and decompress
Compress(data, algorithm) ==
    IF algorithm = Bool(FALSE) \/ algorithm = Num(0) THEN data ELSE Btoa(data)

Decompress(data, algorithm) ==
    IF algorithm = Bool(FALSE) \/ algorithm = Num(0) THEN data
    ELSE IF Atob(data) = "throw" THEN data ELSE Atob(data)

\* serialize and deserialize of utils.ts
Serialize(data, compression) == Compress(Stringify(data, "BufferJSON"), compression)
Deserialize(data, compression) == Parse(Decompress(data, compression), "BufferJSON")

\* fastSerialize and fastDeserialize on the nested values
FastSerializeValue(data) == Stringify(data, "fast")
FastDeserializeText(data) == Parse(data, "fast")

NotSet == [t |-> "none"]

\* a caller serializes a value
SerializeCall(data, compression) ==
    /\ cdIn' = data
    /\ cdMode' = compression
    /\ cdPair' = "serialize"
    /\ cdText' = Serialize(data, compression)
    /\ cdOut' = NotSet
    /\ UNCHANGED notCd

\* and deserializes the text with the same compression argument
DeserializeCall ==
    /\ cdPair = "serialize"
    /\ cdOut = NotSet
    /\ cdOut' = Deserialize(cdText, cdMode)
    /\ UNCHANGED <<cdIn, cdMode, cdPair, cdText, notCd>>

FastSerializeCall(data) ==
    /\ cdIn' = data
    /\ cdMode' = Bool(FALSE)
    /\ cdPair' = "fast"
    /\ cdText' = FastSerializeValue(data)
    /\ cdOut' = NotSet
    /\ UNCHANGED notCd

FastDeserializeCall ==
    /\ cdPair = "fast"
    /\ cdOut = NotSet
    /\ cdOut' = FastDeserializeText(cdText)
    /\ UNCHANGED <<cdIn, cdMode, cdPair, cdText, notCd>>

InitCodec ==
    /\ cdIn = NotSet
    /\ cdMode = Bool(FALSE)
    /\ cdPair = "none"
    /\ cdText = ""
    /\ cdOut = NotSet

NextCodec ==
    \/ \E data \in JsValues, compression \in CompressionModes : SerializeCall(data, compression)
    \/ DeserializeCall
    \/ \E data \in JsValues : FastSerializeCall(data)
    \/ FastDeserializeCall

----------------------------------------------------------------------------
(* useRedisAuthState: the handles of the sessions and their read/write path *)

Prefixes == {"p", "pa"}
SessionIds == {"ab", "b"}
DataKeys == {"k1"}                     \* the `${type}-${id}` keys of keys.get and keys.set
Keys == {"creds"} \cup DataKeys
KeyOrder == <<"k1">>
SessionValues == {Obj(1), Buf(2)}
CredsValues == {Obj(1)}
Handles == 1..MaxHandles

\* const sessionKey = `${keyPrefix}${sessionId}`
SessionKey(keyPrefix, sessionId) == keyPrefix \o sessionId

\* const getRedisKey = (key) => `${sessionKey}:${key}`
GetRedisKey(sessionKey, key) == sessionKey \o ":" \o key

RedisKeys ==
    {GetRedisKey(SessionKey(p, s), k) : p \in Prefixes, s \in SessionIds, k \in Keys}

\* the options of a useRedisAuthState call
Options ==
    [keyPrefix : Prefixes, sessionId : SessionIds, enableCache : BOOLEAN,
     cacheTTL : {CacheTTL}, redis : {"ioredis"}]

NoHandle == [t |-> "none"]
EmptyMap == [key \in RedisKeys |-> NoEntry]

HandleKey(H, key) == GetRedisKey(SessionKey(H.keyPrefix, H.sessionId), key)

\* getSessionCache: the map registered for sessionId, a new one if there is none
GetSessionCache(caches, maps, sessionId) ==
    IF caches[sessionId] = 0
    THEN [id |-> Len(maps) + 1,
          caches |-> [caches EXCEPT ![sessionId] = Len(maps) + 1],
          maps |-> Append(maps, EmptyMap)]
    ELSE [id |-> caches[sessionId], caches |-> caches, maps |-> maps]

\* Date.now() - cached.timestamp > cacheTTL
CacheExpired(t, timestamp, cacheTTL) == t - timestamp > cacheTTL

\* getCachedData: the value, and the map after the lookup
GetCachedData(map, H, key, t) ==
    IF ~H.enableCache THEN [val |-> Null, map |-> map]
    ELSE IF map[key] = NoEntry THEN [val |-> Null, map |-> map]
    ELSE IF CacheExpired(t, map[key].timestamp, H.cacheTTL)
         THEN [val |-> Null, map |-> [map EXCEPT ![key] = NoEntry]]
         ELSE [val |-> map[key].data, map |-> map]

\* setCachedData
SetCachedData(map, H, key, data, t) ==
    IF ~H.enableCache THEN map ELSE [map EXCEPT ![key] = Entry(data, t)]

\* the replies of the connection of a handle
NotYet == [t |-> "pending"]
Ok(results) == [t |-> "ok", results |-> results]
Fail(e) == [t |-> "fail", e |-> e]

Request(fn, arg, loc, multi, cmds) ==
    [fn |-> fn, arg |-> arg, loc |-> loc, multi |-> multi, cmds |-> cmds, reply |-> NotYet]

Command(type, key, value) == [type |-> type, key |-> key, value |-> value]

RECURSIVE InFlightUpTo(_)
InFlightUpTo(h) == IF h = 0 THEN 0 ELSE Len(conn[h]) + InFlightUpTo(h - 1)
InFlight == InFlightUpTo(MaxHandles)

Returned(h, fn, arg, val, trips) ==
    [h |-> h, fn |-> fn, arg |-> arg, out |-> "return", val |-> val, trips |-> trips]
Thrown(h, fn, arg, e) ==
    [h |-> h, fn |-> fn, arg |-> arg, out |-> "throw", val |-> e, trips |-> 1]

\* a write of the logical key is in flight on some connection
WritesKey(req, key) ==
    \/ req.fn = "writeData" /\ req.arg.key = key
    \/ req.fn = "bulkWrite" /\ key \in DOMAIN req.arg
WriteInFlight(queues, key) ==
    \E h \in Handles : \E i \in DOMAIN queues[h] : WritesKey(queues[h][i], key)

\* readData up to `await redis.get(cacheKey)`; forOpen marks the credential
\* load of useRedisAuthState, after which the handle is handed out
ReadDataStart(h, H, maps, key, forOpen) ==
    LET cacheKey == HandleKey(H, key)
        g == GetCachedData(maps[H.sessionCache], H, cacheKey, now)
    IN  /\ cacheMaps' = [maps EXCEPT ![H.sessionCache] = g.map]
        /\ IF g.val # Null
           THEN /\ ret' = Returned(h, "readData", key, g.val, 0)
                /\ handles' = [handles EXCEPT ![h] = [H EXCEPT !.ready = TRUE]]
                /\ UNCHANGED conn
           ELSE /\ InFlight < MaxInFlight
                /\ conn' = [conn EXCEPT ![h] = Append(@,
                              Request("readData", key, forOpen, FALSE,
                                      <<Command("get", cacheKey, Null)>>))]
                /\ handles' = [handles EXCEPT ![h] = H]
                /\ ret' = NoReturn

\* useRedisAuthState(options), up to the load of the credentials
Open(h, options) ==
    /\ handles[h] = NoHandle
    /\ h > 1 => handles[h - 1] # NoHandle
    /\ LET c == GetSessionCache(sessionCaches, cacheMaps, options.sessionId)
           H == [t |-> "handle", keyPrefix |-> options.keyPrefix,
                 sessionId |-> options.sessionId, enableCache |-> options.enableCache,
                 cacheTTL |-> options.cacheTTL, redis |-> options.redis,
                 sessionCache |-> c.id, ready |-> FALSE]
       IN  /\ sessionCaches' = c.caches
           /\ ReadDataStart(h, H, c.maps, "creds", TRUE)
    /\ UNCHANGED <<store, settled, calls, writer, now, notSs>>

IsReady(h) == handles[h] # NoHandle /\ handles[h].ready

\* writeData up to `await redis.set(redisKey, serializedData)`
WriteData(h, data, key) ==
    /\ IsReady(h)
    /\ InFlight < MaxInFlight
    /\ conn' = [conn EXCEPT ![h] = Append(@,
                  Request("writeData", [key |-> key, data |-> data], Null, FALSE,
                          <<Command("set", HandleKey(handles[h], key), FastSerialize(data))>>))]
    /\ settled' = IF settled # Null /\ settled.key = key THEN Null ELSE settled
    /\ ret' = NoReturn
    /\ UNCHANGED <<sessionCaches, cacheMaps, handles, store, writer, now, notSs>>

\* saveCreds: return writeData(creds, 'creds')
SaveCreds(h, creds) ==
    /\ calls < MaxCalls
    /\ calls' = calls + 1
    /\ WriteData(h, creds, "creds")

\* the first loop of bulkRead: the keys found in the cache and the missing ones
RECURSIVE BulkReadScan(_, _, _, _, _, _)
BulkReadScan(H, keys, i, map, result, missingKeys) ==
    IF i > Len(keys) THEN [map |-> map, result |-> result, missingKeys |-> missingKeys]
    ELSE LET g == GetCachedData(map, H, HandleKey(H, keys[i]), now)
         IN  IF g.val # Null
             THEN BulkReadScan(H, keys, i + 1, g.map,
                      [k \in DOMAIN result \cup {keys[i]} |->
                          IF k = keys[i] THEN g.val ELSE result[k]], missingKeys)
             ELSE BulkReadScan(H, keys, i + 1, g.map, result, Append(missingKeys, keys[i]))

\* the second loop of bulkRead over the reply; a throw ends it, and the catch
\* block leaves result as it is
RECURSIVE BulkReadFill(_, _, _, _, _, _)
BulkReadFill(H, missingKeys, results, i, map, result) ==
    IF i > Len(missingKeys) THEN [map |-> map, result |-> result]
    ELSE LET data == Idx(ArrGet(results, i - 1), 1)
         IN  IF data = Throw THEN [map |-> map, result |-> result]
             ELSE IF ~Truthy(data)
                  THEN BulkReadFill(H, missingKeys, results, i + 1, map, result)
                  ELSE LET parsed == IF data.t = "str" THEN FastDeserialize(data) ELSE Throw
                       IN  IF parsed = Throw THEN [map |-> map, result |-> result]
                           ELSE BulkReadFill(H, missingKeys, results, i + 1,
                                    SetCachedData(map, H, HandleKey(H, missingKeys[i]), parsed, now),
                                    [k \in DOMAIN result \cup {missingKeys[i]} |->
                                        IF k = missingKeys[i] THEN parsed ELSE result[k]])

BulkRead(h, keys) ==
    /\ IsReady(h)
    /\ calls < MaxCalls
    /\ calls' = calls + 1
    /\ LET H == handles[h]
           s == BulkReadScan(H, keys, 1, cacheMaps[H.sessionCache], <<>>, <<>>)
       IN  /\ cacheMaps' = [cacheMaps EXCEPT ![H.sessionCache] = s.map]
           /\ IF Len(s.missingKeys) = 0
              THEN /\ ret' = Returned(h, "bulkRead", keys, s.result, 0)
                   /\ UNCHANGED conn
              ELSE /\ InFlight < MaxInFlight
                   /\ conn' = [conn EXCEPT ![h] = Append(@,
                                 Request("bulkRead", keys,
                                         [result |-> s.result, missingKeys |-> s.missingKeys], TRUE,
                                         [i \in DOMAIN s.missingKeys |->
                                             Command("get", HandleKey(H, s.missingKeys[i]), Null)]))]
                   /\ ret' = NoReturn
    /\ UNCHANGED <<sessionCaches, handles, store, settled, writer, now, notSs>>

\* the loop of bulkWrite: the commands queued and the cache after it
RECURSIVE BulkWriteScan(_, _, _, _, _)
BulkWriteScan(H, data, i, map, cmds) ==
    IF i > Len(KeyOrder) THEN [map |-> map, cmds |-> cmds]
    ELSE IF KeyOrder[i] \notin DOMAIN data THEN BulkWriteScan(H, data, i + 1, map, cmds)
    ELSE LET redisKey == HandleKey(H, KeyOrder[i])
             value == data[KeyOrder[i]]
         IN  IF value # Null
             THEN BulkWriteScan(H, data, i + 1,
                      SetCachedData(map, H, redisKey, value, now),
                      Append(cmds, Command("set", redisKey, FastSerialize(value))))
             ELSE BulkWriteScan(H, data, i + 1,
                      [map EXCEPT ![redisKey] = NoEntry],
                      Append(cmds, Command("del", redisKey, Null)))

BulkWriteData == UNION {[ks -> SessionValues \cup {Null}] : ks \in SUBSET DataKeys \ {{}}}

\* bulkWrite up to `await pipeline.exec()`
BulkWrite(h, data) ==
    /\ IsReady(h)
    /\ calls < MaxCalls
    /\ calls' = calls + 1
    /\ InFlight < MaxInFlight
    /\ LET H == handles[h]
           s == BulkWriteScan(H, data, 1, cacheMaps[H.sessionCache], <<>>)
       IN  /\ cacheMaps' = [cacheMaps EXCEPT ![H.sessionCache] = s.map]
           /\ conn' = [conn EXCEPT ![h] = Append(@,
                         Request("bulkWrite", data, [at |-> now], TRUE, s.cmds))]
    /\ settled' = IF settled # Null /\ settled.key \in DOMAIN data THEN Null ELSE settled
    /\ ret' = NoReturn
    /\ UNCHANGED <<sessionCaches, handles, store, writer, now, notSs>>

\* the first request of the queue that the store has not executed yet
FirstPending(queue) ==
    IF \E i \in DOMAIN queue : queue[i].reply = NotYet
    THEN CHOOSE i \in DOMAIN queue :
            queue[i].reply = NotYet /\ \A j \in 1..(i - 1) : queue[j].reply # NotYet
    ELSE 0

\* the store executes the next request of a connection; the commands in errs fail
StoreExecutes(h, errs) ==
    /\ handles[h] # NoHandle
    /\ FirstPending(conn[h]) # 0
    /\ LET i == FirstPending(conn[h])
           req == conn[h][i]
           H == handles[h]
           r == MultiExec(IF req.multi THEN H.redis ELSE "redis", req.cmds, errs, 1, store, <<>>)
       IN  /\ errs \subseteq DOMAIN req.cmds
           /\ (~req.multi \/ H.redis = "redis") => errs = {}
           /\ store' = r.data
           /\ conn' = [conn EXCEPT ![h][i].reply = Ok(r.results)]
           /\ writer' = [key \in RedisKeys |->
                           IF \E c \in DOMAIN req.cmds :
                                 c \notin errs /\ req.cmds[c].key = key /\ req.cmds[c].type # "get"
                           THEN (IF store'[key] = Null THEN Null
                                 ELSE [keyPrefix |-> H.keyPrefix, sessionId |-> H.sessionId])
                           ELSE writer[key]]
    /\ ret' = NoReturn
    /\ UNCHANGED <<sessionCaches, cacheMaps, handles, settled, calls, now, notSs>>

\* the round trip of the next request fails: the connection is lost
ConnectionFails(h) ==
    /\ handles[h] # NoHandle
    /\ FirstPending(conn[h]) # 0
    /\ conn' = [conn EXCEPT ![h][FirstPending(conn[h])].reply = Fail(ConnError)]
    /\ ret' = NoReturn
    /\ UNCHANGED <<sessionCaches, cacheMaps, handles, store, settled, calls, writer, now, notSs>>

NoErrorIn(results) ==
    \A i \in DOMAIN results : results[i].t = "pair" => results[i].err = Null

\* the reply of the oldest request arrives and the function awaiting it goes on
Delivers(h) ==
    /\ handles[h] # NoHandle
    /\ Len(conn[h]) > 0
    /\ Head(conn[h]).reply # NotYet
    /\ LET req == Head(conn[h])
           H == handles[h]
           map == cacheMaps[H.sessionCache]
           rest == [conn EXCEPT ![h] = Tail(@)]
       IN  /\ conn' = rest
           /\ CASE req.fn = "readData" ->
                    LET data == IF req.reply.t = "ok" THEN req.reply.results[1] ELSE Null
                        parsed == IF Truthy(data) THEN FastDeserialize(data) ELSE Throw
                    IN  /\ IF req.reply.t = "ok" /\ Truthy(data) /\ parsed # Throw
                           THEN /\ cacheMaps' = [cacheMaps EXCEPT ![H.sessionCache] =
                                       SetCachedData(map, H, HandleKey(H, req.arg), parsed, now)]
                                /\ ret' = Returned(h, "readData", req.arg, parsed, 1)
                           ELSE /\ ret' = Returned(h, "readData", req.arg, Null, 1)
                                /\ UNCHANGED cacheMaps
                        /\ handles' = [handles EXCEPT ![h].ready = TRUE]
                        /\ UNCHANGED settled
                [] req.fn = "writeData" ->
                    /\ IF req.reply.t = "ok"
                       THEN /\ cacheMaps' = [cacheMaps EXCEPT ![H.sessionCache] =
                                   SetCachedData(map, H, HandleKey(H, req.arg.key), req.arg.data, now)]
                            /\ ret' = Returned(h, "writeData", req.arg, Null, 1)
                            /\ settled' = IF WriteInFlight(rest, req.arg.key) THEN Null
                                          ELSE [h |-> h, key |-> req.arg.key,
                                                val |-> req.arg.data, at |-> now]
                       ELSE /\ ret' = Thrown(h, "writeData", req.arg, req.reply.e)
                            /\ UNCHANGED <<cacheMaps, settled>>
                    /\ UNCHANGED handles
                [] req.fn = "bulkRead" ->
                    LET f == IF req.reply.t = "ok"
                             THEN BulkReadFill(H, req.loc.missingKeys, req.reply.results, 1,
                                               map, req.loc.result)
                             ELSE [map |-> map, result |-> req.loc.result]
                    IN  /\ cacheMaps' = [cacheMaps EXCEPT ![H.sessionCache] = f.map]
                        /\ ret' = Returned(h, "bulkRead", req.arg, f.result, 1)
                        /\ UNCHANGED <<handles, settled>>
                [] req.fn = "bulkWrite" ->
                    /\ IF req.reply.t = "ok"
                       THEN /\ ret' = Returned(h, "bulkWrite", req.arg, Null, 1)
                            /\ settled' =
                                 IF DOMAIN req.arg = {} THEN settled
                                 ELSE LET key == IF "k1" \in DOMAIN req.arg THEN "k1" ELSE "k2"
                                      IN  IF WriteInFlight(rest, key)
                                             \/ ~NoErrorIn(req.reply.results)
                                          THEN Null
                                          ELSE [h |-> h, key |-> key, val |-> req.arg[key],
                                                at |-> req.loc.at]
                       ELSE /\ ret' = Thrown(h, "bulkWrite", req.arg, req.reply.e)
                            /\ UNCHANGED settled
                    /\ UNCHANGED <<cacheMaps, handles>>
    /\ UNCHANGED <<sessionCaches, store, calls, writer, now, notSs>>

InitSessions ==
    /\ sessionCaches = [s \in SessionIds |-> 0]
    /\ cacheMaps = <<>>
    /\ handles = [h \in Handles |-> NoHandle]
    /\ store = [key \in RedisKeys |-> Null]
    /\ conn = [h \in Handles |-> <<>>]
    /\ ret = NoReturn
    /\ settled = Null
    /\ calls = 0
    /\ writer = [key \in RedisKeys |-> Null]

BulkKeyLists == UNION {[1..n -> DataKeys] : n \in 1..MaxBulkKeys}

\* one handle on a session, while time passes
Next ==
    \/ \E options \in Options : Open(1, options)
    \/ \E creds \in CredsValues : SaveCreds(1, creds)
    \/ \E keys \in BulkKeyLists : BulkRead(1, keys)
    \/ \E data \in BulkWriteData : BulkWrite(1, data)
    \/ \E errs \in SUBSET (1..MaxBulkKeys) : StoreExecutes(1, errs)
    \/ ConnectionFails(1)
    \/ Delivers(1)
    \/ Tick

\* several handles, on the same session or on different ones, loading and
\* saving their credentials within one instant
NextSessions ==
    \/ \E h \in Handles, options \in Options : Open(h, options)
    \/ \E h \in Handles, creds \in SessionValues : SaveCreds(h, creds)
    \/ \E h \in Handles, errs \in SUBSET (1..MaxBulkKeys) : StoreExecutes(h, errs)
    \/ \E h \in Handles : ConnectionFails(h)
    \/ \E h \in Handles : Delivers(h)

\* a payload that JSON.parse rejects, left under a key of the store by another
\* client of the same Redis
MalformedPayloads == {Str("{d:")}

ForeignSet(key, payload) ==
    /\ store[key] # payload
    /\ store' = [store EXCEPT ![key] = payload]
    /\ UNCHANGED <<sessionCaches, cacheMaps, handles, conn, ret, settled, calls, writer, now, notSs>>

\* one handle reading a store that other clients write as well
NextReads ==
    \/ \E options \in Options : Open(1, options)
    \/ \E creds \in CredsValues : SaveCreds(1, creds)
    \/ \E keys \in BulkKeyLists : BulkRead(1, keys)
    \/ StoreExecutes(1, {})
    \/ Delivers(1)
    \/ \E key \in RedisKeys, payload \in MalformedPayloads : ForeignSet(key, payload)

\* the options of handles whose cache entries age: cacheTTL 0 as well
AgingOptions ==
    [keyPrefix : Prefixes, sessionId : SessionIds, enableCache : BOOLEAN,
     cacheTTL : {0, CacheTTL}, redis : {"ioredis"}]

\* one handle saving its credentials while time passes; entries of the session
\* cache leave it in getCachedData, bulkWrite and cleanupSession only
NextAging ==
    \/ \E options \in AgingOptions : Open(1, options)
    \/ \E creds \in CredsValues : SaveCreds(1, creds)
    \/ StoreExecutes(1, {})
    \/ Delivers(1)
    \/ Tick

----------------------------------------------------------------------------
(* writeData and bulkWrite with options.ttl: detectRedisClient and setWithExpiration *)

Constructors == {"Redis", "Commander"}        \* redis.constructor.name
Methods == {"connect", "get", "setEx", "setex", "setEX", "set"}
ExKeyOrder == <<"k1", "k2">>
ExKeys == {ExKeyOrder[i] : i \in DOMAIN ExKeyOrder}
ExValues == {Str("v1")}
Ttls == {Null, Num(0), Num(MaxExpiry)}        \* options.ttl: undefined, 0 or a number of seconds
NoExpiry == 0

\* useRedisAuthState takes options.redis as the client when it has a connect
\* function or is named Redis or Cluster
IsExistingClient(redis) ==
    "connect" \in redis.methods \/ redis.ctor \in {"Redis", "Cluster"}

RedisClients ==
    {redis \in [ctor : Constructors, methods : SUBSET Methods] : IsExistingClient(redis)}

NoClient == [ctor |-> "none", methods |-> {}]
Absent == [value |-> Null, ex |-> NoExpiry]
Stored(value, ex) == [value |-> value, ex |-> ex]

DetectRedisClient(redis) ==
    IF redis.ctor \in {"Redis", "Cluster"}
    THEN [type |-> "ioredis", setEx |-> "setex"]
    ELSE IF "connect" \in redis.methods \/ "get" \in redis.methods
         THEN [type |-> "redis",
               setEx |-> IF "setEx" \in redis.methods THEN "setEx"
                         ELSE IF "setex" \in redis.methods THEN "setex" ELSE "set"]
         ELSE [type |-> "unknown", setEx |-> "set"]

\* the run of one write: the store, the calls made so far, the number of
\* commands the client has sent, and whether the code is still on its normal path
Event(name, ex, ok) == [e |-> name, ex |-> ex, ok |-> ok]
Run(data) == [store |-> data, trace |-> <<>>, n |-> 0, out |-> "ok"]
Console(r, level) == [r EXCEPT !.trace = Append(@, Event(level, NoExpiry, TRUE))]

\* await redis[method](...): a TypeError if the client has no such method; the
\* first `rejects` commands the client sends are rejected
Call(r, redis, method, key, value, ex, rejects) ==
    IF method \notin redis.methods
    THEN [r EXCEPT !.trace = Append(@, Event(method, ex, FALSE)), !.out = "throw"]
    ELSE IF r.n < rejects
         THEN [r EXCEPT !.trace = Append(@, Event(method, ex, FALSE)), !.n = @ + 1,
                        !.out = "throw"]
         ELSE [r EXCEPT !.store[key] = Stored(value, ex),
                        !.trace = Append(@, Event(method, ex, TRUE)), !.n = @ + 1]

\* the catch block of setWithExpiration, entered with the run that threw
CatchFallbackRethrow(try, redis, key, value, rejects) == try

CatchFallback(try, redis, key, value, rejects) ==
    LET b == Call([try EXCEPT !.out = "ok"], redis, "set", key, value, NoExpiry, rejects)
    IN  IF b.out = "ok" THEN Console(b, "warn") ELSE b

SetWithExpiration(r, redis, key, value, ttl, rejects) ==
    LET clientInfo == DetectRedisClient(redis)
        m == redis.methods
        try == CASE clientInfo.type = "ioredis" ->
                        Call(r, redis, "setex", key, value, ttl, rejects)
                 [] clientInfo.type = "redis" ->
                        IF "setEx" \in m THEN Call(r, redis, "setEx", key, value, ttl, rejects)
                        ELSE IF "setex" \in m THEN Call(r, redis, "setex", key, value, ttl, rejects)
                        ELSE IF "setEX" \in m THEN Call(r, redis, "setEX", key, value, ttl, rejects)
                        ELSE IF "set" \in m THEN Call(r, redis, "set", key, value, ttl, rejects)
                        ELSE [r EXCEPT !.out = "throw"]
                 [] OTHER ->
                        LET a == Call(r, redis, "set", key, value, NoExpiry, rejects)
                        IN  IF a.out = "ok" THEN Console(a, "warn") ELSE a
    IN  IF try.out = "ok" THEN try ELSE CatchFallback(try, redis, key, value, rejects)

HasTtl(ttl) == Truthy(ttl) /\ ttl.n > 0       \* ttl && ttl > 0

ExReturn(fn, arg, rejects, out) == [fn |-> fn, arg |-> arg, rejects |-> rejects, out |-> out]

\* useRedisAuthState with an existing client and a ttl
UseClient(redis, ttl) ==
    /\ exRedis = NoClient
    /\ exRedis' = redis
    /\ exTtl' = ttl
    /\ UNCHANGED <<exStore, exCache, exTrace, exRet, notEx>>

\* writeData(data, key) of that handle, from call to return
WriteDataTtl(data, key, rejects) ==
    /\ exRedis # NoClient
    /\ LET w == IF HasTtl(exTtl)
                THEN SetWithExpiration(Run(exStore), exRedis, key, data, exTtl.n, rejects)
                ELSE Call(Run(exStore), exRedis, "set", key, data, NoExpiry, rejects)
           r == IF w.out = "ok" THEN w ELSE Console(w, "error")
       IN  /\ exStore' = r.store
           /\ exTrace' = r.trace
           /\ exCache' = IF r.out = "ok" THEN [exCache EXCEPT ![key] = data] ELSE exCache
           /\ exRet' = ExReturn("writeData", key, rejects, IF r.out = "ok" THEN "return" ELSE "throw")
    /\ UNCHANGED <<exRedis, exTtl, notEx>>

\* the method bulkWrite queues a value with on the pipeline, and its expiry
PipelineSet(redis, ttl) ==
    LET clientInfo == DetectRedisClient(redis)
    IN  IF ~HasTtl(ttl) THEN [method |-> "set", ex |-> NoExpiry]
        ELSE IF clientInfo.type = "ioredis" THEN [method |-> "setex", ex |-> ttl.n]
        ELSE IF clientInfo.type = "redis"
             THEN IF "setEx" \in redis.methods THEN [method |-> "setEx", ex |-> ttl.n]
                  ELSE IF "setex" \in redis.methods THEN [method |-> "setex", ex |-> ttl.n]
                  ELSE [method |-> "set", ex |-> ttl.n]
             ELSE [method |-> "set", ex |-> ttl.n]

\* the loop of bulkWrite over Object.entries(data); a pipeline has the set
\* methods its client has, and del
RECURSIVE BulkWriteQueue(_, _, _, _, _, _)
BulkWriteQueue(redis, ttl, data, i, cache, q) ==
    IF i > Len(ExKeyOrder) \/ q.out = "throw" THEN [cache |-> cache, q |-> q]
    ELSE LET key == ExKeyOrder[i]
         IN  IF key \notin DOMAIN data
             THEN BulkWriteQueue(redis, ttl, data, i + 1, cache, q)
             ELSE IF data[key] # Null
                  THEN LET c == PipelineSet(redis, ttl)
                       IN  IF c.method \notin redis.methods
                           THEN BulkWriteQueue(redis, ttl, data, i + 1, cache,
                                    [q EXCEPT !.trace = Append(@, Event(c.method, c.ex, FALSE)),
                                              !.out = "throw"])
                           ELSE BulkWriteQueue(redis, ttl, data, i + 1,
                                    [cache EXCEPT ![key] = data[key]],
                                    [q EXCEPT !.store[key] = Stored(data[key], c.ex),
                                              !.trace = Append(@, Event(c.method, c.ex, TRUE))])
                  ELSE BulkWriteQueue(redis, ttl, data, i + 1,
                           [cache EXCEPT ![key] = Null],
                           [q EXCEPT !.store[key] = Absent,
                                     !.trace = Append(@, Event("del", NoExpiry, TRUE))])

ExBulkData == UNION {[ks -> ExValues \cup {Null}] : ks \in SUBSET ExKeys \ {{}}}

\* bulkWrite(data) of that handle, from call to return: the queued commands
\* take effect when pipeline.exec() is not rejected
BulkWriteTtl(data, rejects) ==
    /\ exRedis # NoClient
    /\ LET b == BulkWriteQueue(exRedis, exTtl, data, 1, exCache, Run(exStore))
           fails == b.q.out = "throw" \/ rejects > 0
       IN  /\ exCache' = b.cache
           /\ exStore' = IF fails THEN exStore ELSE b.q.store
           /\ exTrace' = IF b.q.out = "throw" THEN b.q.trace
                         ELSE Append(b.q.trace, Event("exec", NoExpiry, rejects = 0))
           /\ exRet' = ExReturn("bulkWrite", data, rejects, IF fails THEN "throw" ELSE "return")
    /\ UNCHANGED <<exRedis, exTtl, notEx>>

InitExpiry ==
    /\ exRedis = NoClient
    /\ exTtl = Null
    /\ exStore = [key \in ExKeys |-> Absent]
    /\ exCache = [key \in ExKeys |-> Null]
    /\ exTrace = <<>>
    /\ exRet = ExReturn("none", Null, 0, "none")

NextExpiry ==
    \/ \E redis \in RedisClients, ttl \in Ttls : UseClient(redis, ttl)
    \/ \E data \in ExValues, key \in ExKeys, rejects \in 0..MaxRejects :
          WriteDataTtl(data, key, rejects)
    \/ \E data \in ExBulkData, rejects \in 0..MaxRejects : BulkWriteTtl(data, rejects)

----------------------------------------------------------------------------
(* state.keys.get and state.keys.set: the keys they read and write *)

KyPrefix == "p"
KySessions == {"a", "a:b"}
KyCategories == {"k", "k-m", "b:k"}
KyIds == {"1", "m-1"}

\* `${category}-${id}`
KeyedId(category, id) == category \o "-" \o id

\* getRedisKey(`${category}-${id}`) of a handle of the session
TransportKey(sessionId, category, id) ==
    GetRedisKey(SessionKey(KyPrefix, sessionId), KeyedId(category, id))

TransportKeys ==
    {TransportKey(s, c, i) : s \in KySessions, c \in KyCategories, i \in KyIds}

Written(sessionId, category, id) == [sessionId |-> sessionId, category |-> category, id |-> id]
NotWritten == [sessionId |-> "", category |-> "", id |-> ""]

\* state.keys.set({[category]: {[id]: value}}) through a handle of the
\* session, the value stored
KeysSet(sessionId, category, id) ==
    /\ kySets < MaxKeySets
    /\ kySets' = kySets + 1
    /\ kyStore' = [kyStore EXCEPT ![TransportKey(sessionId, category, id)] =
                      Written(sessionId, category, id)]
    /\ UNCHANGED <<kyRet, notKy>>

\* state.keys.get(type, [id]) through a handle of the session, the value read
KeysGet(sessionId, type, id) ==
    /\ kyRet' = [sessionId |-> sessionId, type |-> type, id |-> id,
                 val |-> kyStore[TransportKey(sessionId, type, id)]]
    /\ UNCHANGED <<kyStore, kySets, notKy>>

InitKeys ==
    /\ kyStore = [key \in TransportKeys |-> NotWritten]
    /\ kyRet = [sessionId |-> "", type |-> "", id |-> "", val |-> NotWritten]
    /\ kySets = 0

NextKeys ==
    \/ \E s \in KySessions, c \in KyCategories, i \in KyIds : KeysSet(s, c, i)
    \/ \E s \in KySessions, c \in KyCategories, i \in KyIds : KeysGet(s, c, i)

----------------------------------------------------------------------------
(* RedisConnectionPool, getSessionPool and cleanupSession *)

Callers == 1..MaxCallers
PoolSessions == {"ab"}                       \* the session whose pool the callers ask for
PoolSizes == 1..MaxPoolSize
Foreign == 0                                 \* a connection that no pool of the model created

Idle == [op |-> "idle"]
NewPool(sessionId, poolSize, epoch) ==
    [sessionId |-> sessionId, poolSize |-> poolSize, connections |-> <<>>,
     availableConnections |-> <<>>, usedConnections |-> {},
     status |-> "new", epoch |-> epoch]

PoolReturned(c, fn, arg, val) == [c |-> c, fn |-> fn, arg |-> arg, out |-> "return", val |-> val]
PoolThrown(c, fn, arg) == [c |-> c, fn |-> fn, arg |-> arg, out |-> "throw", val |-> 0]
NoPoolReturn == [c |-> 0, fn |-> "none", arg |-> 0, out |-> "none", val |-> 0]

\* useRedisAuthState without a client in its options, up to
\* `await pool.initialize()`: getSessionCache(sessionId), then getSessionPool
GetSessionPool(c, sessionId, poolSize) ==
    /\ tasks[c] = Idle
    /\ LET r == GetSessionCache(sessionCaches, cacheMaps, sessionId)
       IN  /\ Len(r.maps) <= MaxCleanups + 1
           /\ sessionCaches' = r.caches
           /\ cacheMaps' = r.maps
    /\ IF sessionPools[sessionId] # 0
       THEN /\ got' = [got EXCEPT ![c] = sessionPools[sessionId]]
            /\ plRet' = PoolReturned(c, "getSessionPool", sessionId, sessionPools[sessionId])
            /\ UNCHANGED <<pools, tasks>>
       ELSE /\ Len(pools) < MaxPools
            /\ pools' = Append(pools, NewPool(sessionId, poolSize, cleanups[sessionId]))
            /\ tasks' = [tasks EXCEPT ![c] = [op |-> "initialize", pool |-> Len(pools) + 1]]
            /\ plRet' = NoPoolReturn
            /\ UNCHANGED got
    /\ UNCHANGED <<sessionPools, clients, quitCalled, quitFailed, held, refs, cleanups, lastCleanup>>
    /\ UNCHANGED <<handles, store, conn, ret, settled, calls, writer, now, notPl>>

\* a caller awaits createRedisClient: in the loop of initialize, or in
\* getConnection on a pool with no available connection
AwaitsClient(c) ==
    \/ /\ tasks[c].op = "initialize"
       /\ Len(pools[tasks[c].pool].connections) < pools[tasks[c].pool].poolSize
    \/ tasks[c].op = "getConnection"

\* createRedisClient returns a client
CreateClientReturns(c) ==
    /\ AwaitsClient(c)
    /\ clients < MaxClients
    /\ clients' = clients + 1
    /\ IF tasks[c].op = "initialize"
       THEN /\ pools' = [pools EXCEPT
                           ![tasks[c].pool].connections = Append(@, clients + 1),
                           ![tasks[c].pool].availableConnections = Append(@, clients + 1)]
            /\ plRet' = NoPoolReturn
            /\ UNCHANGED <<tasks, held, refs>>
       ELSE /\ tasks' = [tasks EXCEPT ![c] = Idle]
            /\ held' = [held EXCEPT ![c] = @ \cup {clients + 1}]
            /\ refs' = [refs EXCEPT ![c] = @ \cup {clients + 1}]
            /\ plRet' = PoolReturned(c, "getConnection", tasks[c].pool, clients + 1)
            /\ UNCHANGED pools
    /\ UNCHANGED <<sessionPools, quitCalled, quitFailed, got, cleanups, lastCleanup, ssVars, now, notPl>>

\* the registry after initialize has thrown: sessionPools.set is not reached
RegistryAfterFailedInitSet(registry, sessionId, pool) == [registry EXCEPT ![sessionId] = pool]

RegistryAfterFailedInit(registry, sessionId, pool) == registry

\* createRedisClient throws: neither client library could give a client
CreateClientRaises(c) ==
    /\ AwaitsClient(c)
    /\ tasks' = [tasks EXCEPT ![c] = Idle]
    /\ IF tasks[c].op = "initialize"
       THEN /\ pools' = [pools EXCEPT ![tasks[c].pool].status = "failed"]
            /\ sessionPools' = RegistryAfterFailedInit(sessionPools,
                                   pools[tasks[c].pool].sessionId, tasks[c].pool)
            /\ plRet' = PoolThrown(c, "getSessionPool", pools[tasks[c].pool].sessionId)
       ELSE /\ plRet' = PoolThrown(c, "getConnection", tasks[c].pool)
            /\ UNCHANGED <<pools, sessionPools>>
    /\ UNCHANGED <<clients, quitCalled, quitFailed, got, held, refs, cleanups, lastCleanup, ssVars, now, notPl>>

\* initialize has returned: sessionPools.set(sessionId, pool); return pool
InitializeReturns(c) ==
    /\ tasks[c].op = "initialize"
    /\ Len(pools[tasks[c].pool].connections) = pools[tasks[c].pool].poolSize
    /\ sessionPools' = [sessionPools EXCEPT ![pools[tasks[c].pool].sessionId] = tasks[c].pool]
    /\ pools' = [pools EXCEPT ![tasks[c].pool].status = "ready"]
    /\ got' = [got EXCEPT ![c] = tasks[c].pool]
    /\ tasks' = [tasks EXCEPT ![c] = Idle]
    /\ plRet' = PoolReturned(c, "getSessionPool", pools[tasks[c].pool].sessionId, tasks[c].pool)
    /\ UNCHANGED <<clients, quitCalled, quitFailed, held, refs, cleanups, lastCleanup, ssVars, now, notPl>>

\* this.usedConnections.add(conn)
MarkUsedNot(used, connection) == used

MarkUsed(used, connection) == used \cup {connection}

\* getConnection
GetConnection(c) ==
    /\ tasks[c] = Idle
    /\ got[c] # 0
    /\ LET p == got[c]
           available == pools[p].availableConnections
       IN  IF Len(available) > 0
           THEN LET connection == available[Len(available)]
                IN  /\ pools' = [pools EXCEPT
                                   ![p].availableConnections = SubSeq(available, 1, Len(available) - 1),
                                   ![p].usedConnections = MarkUsed(@, connection)]
                    /\ held' = [held EXCEPT ![c] = @ \cup {connection}]
                    /\ refs' = [refs EXCEPT ![c] = @ \cup {connection}]
                    /\ plRet' = PoolReturned(c, "getConnection", p, connection)
                    /\ UNCHANGED tasks
           ELSE /\ tasks' = [tasks EXCEPT ![c] = [op |-> "getConnection", pool |-> p]]
                /\ plRet' = NoPoolReturn
                /\ UNCHANGED <<pools, held, refs>>
    /\ UNCHANGED <<sessionPools, clients, quitCalled, quitFailed, got, cleanups, lastCleanup, ssVars, now, notPl>>

\* if (this.usedConnections.has(connection))
IsUsedAlways(used, connection) == TRUE

IsUsed(used, connection) == connection \in used

\* releaseConnection(connection), by a caller that holds a reference to the
\* pool and to the connection
ReleaseConnection(c, connection) ==
    /\ tasks[c] = Idle
    /\ got[c] # 0
    /\ connection \in refs[c] \cup {Foreign}
    /\ LET p == got[c]
           moved == IsUsed(pools[p].usedConnections, connection)
       IN  /\ pools' = IF moved
                       THEN [pools EXCEPT
                               ![p].usedConnections = @ \ {connection},
                               ![p].availableConnections = Append(@, connection)]
                       ELSE pools
           /\ plRet' = PoolReturned(c, "releaseConnection", connection, moved)
    /\ held' = [held EXCEPT ![c] = @ \ {connection}]
    /\ UNCHANGED <<sessionPools, clients, quitCalled, quitFailed, tasks, got, refs, cleanups, lastCleanup, ssVars, now, notPl>>

\* the pool registry while cleanupSession awaits pool.destroy()
RegistryDuringDestroyCleared(registry, sessionId) == [registry EXCEPT ![sessionId] = 0]

RegistryDuringDestroy(registry, sessionId) == registry

\* the store after cleanupSession: the function sends it no command
StoreAfterCleanupPurged(data, sessionId) == [key \in DOMAIN data |-> Null]

StoreAfterCleanup(data, sessionId) == data

\* sessionCaches.delete(sessionId)
CachesAfterCleanupAll(caches, sessionId) == [s \in DOMAIN caches |-> 0]

CachesAfterCleanup(caches, sessionId) == [caches EXCEPT ![sessionId] = 0]

\* for (const conn of this.connections): the connections destroy walks are
\* the ones initialize made, never a client a caller passed in its options
DestroyTargetsAndClient(pool) == Append(pool.connections, Foreign)

DestroyTargets(pool) == pool.connections

\* a call of cleanupSession up to `await pool.destroy()`; the suspended call
\* keeps, as history, the number of caches that had been made when it began
CleanupSessionCall(c, sessionId, redisOptions, keyPrefix) ==
    /\ tasks[c] = Idle
    /\ lastCleanup' = [sessionId |-> sessionId, redisOptions |-> redisOptions, keyPrefix |-> keyPrefix]
    /\ cleanups[sessionId] < MaxCleanups
    /\ cleanups' = [cleanups EXCEPT ![sessionId] = @ + 1]
    /\ sessionCaches' = CachesAfterCleanup(sessionCaches, sessionId)
    /\ IF sessionPools[sessionId] = 0
       THEN /\ plRet' = PoolReturned(c, "cleanupSession", sessionId, 0)
            /\ UNCHANGED <<sessionPools, tasks>>
       ELSE /\ tasks' = [tasks EXCEPT ![c] =
                           [op |-> "destroy", sessionId |-> sessionId,
                            pool |-> sessionPools[sessionId],
                            connections |-> DestroyTargets(pools[sessionPools[sessionId]]),
                            i |-> 1, caches |-> Len(cacheMaps)]]
            /\ sessionPools' = RegistryDuringDestroy(sessionPools, sessionId)
            /\ plRet' = NoPoolReturn
    /\ store' = StoreAfterCleanup(store, sessionId)
    /\ UNCHANGED <<pools, clients, quitCalled, quitFailed, got, held, refs>>
    /\ UNCHANGED <<cacheMaps, handles, conn, ret, settled, calls, writer, now, notPl>>

\* cleanupSession(sessionId)
CleanupSession(c, sessionId) == CleanupSessionCall(c, sessionId, "undefined", "undefined")

\* cleanupSession(sessionId, redisOptions, keyPrefix), as the README calls it
\* for a complete cleanup: the function declares the one parameter sessionId,
\* the other arguments are dropped
CleanupSessionComplete(c, sessionId, redisOptions, keyPrefix) ==
    CleanupSessionCall(c, sessionId, redisOptions, keyPrefix)

\* the loop of destroy after conn.quit() has returned or thrown: the catch
\* block ignores the error
AfterQuitStopOnError(task, ok, n) == [task EXCEPT !.i = IF ok THEN @ + 1 ELSE n + 1]

AfterQuit(task, ok, n) == [task EXCEPT !.i = @ + 1]

\* conn.quit() of the next connection is called and returns, or throws; the
\* loop iterates the array that was this.connections when destroy began
QuitReturns(c, ok) ==
    /\ tasks[c].op = "destroy"
    /\ tasks[c].i <= Len(tasks[c].connections)
    /\ quitCalled' = quitCalled \cup {tasks[c].connections[tasks[c].i]}
    /\ quitFailed' = IF ok THEN quitFailed ELSE quitFailed \cup {tasks[c].connections[tasks[c].i]}
    /\ tasks' = [tasks EXCEPT ![c] = AfterQuit(@, ok, Len(tasks[c].connections))]
    /\ plRet' = NoPoolReturn
    /\ UNCHANGED <<sessionPools, pools, clients, got, held, refs, cleanups, lastCleanup, ssVars, now, notPl>>

\* the loop of destroy is over: the three collections are emptied
DestroyReturns(c) ==
    /\ tasks[c].op = "destroy"
    /\ tasks[c].i > Len(tasks[c].connections)
    /\ pools' = [pools EXCEPT ![tasks[c].pool].connections = <<>>,
                              ![tasks[c].pool].availableConnections = <<>>,
                              ![tasks[c].pool].usedConnections = {},
                              ![tasks[c].pool].status = "destroyed"]
    /\ tasks' = [tasks EXCEPT ![c] = [op |-> "cleanup", sessionId |-> tasks[c].sessionId,
                                      pool |-> tasks[c].pool, caches |-> tasks[c].caches]]
    /\ plRet' = PoolReturned(c, "destroy", tasks[c].pool, 0)
    /\ UNCHANGED <<sessionPools, clients, quitCalled, quitFailed, got, held, refs, cleanups, lastCleanup, ssVars, now, notPl>>

\* cleanupSession after `await pool.destroy()`: sessionPools.delete(sessionId)
CleanupReturns(c) ==
    /\ tasks[c].op = "cleanup"
    /\ sessionPools' = [sessionPools EXCEPT ![tasks[c].sessionId] = 0]
    /\ tasks' = [tasks EXCEPT ![c] = Idle]
    /\ plRet' = PoolReturned(c, "cleanupSession", tasks[c].sessionId, tasks[c].pool)
    /\ UNCHANGED <<pools, clients, quitCalled, quitFailed, got, held, refs, cleanups, lastCleanup, ssVars, now, notPl>>

InitPools ==
    /\ sessionPools = [s \in SessionIds |-> 0]
    /\ pools = <<>>
    /\ clients = 0
    /\ quitCalled = {}
    /\ quitFailed = {}
    /\ tasks = [c \in Callers |-> Idle]
    /\ got = [c \in Callers |-> 0]
    /\ held = [c \in Callers |-> {}]
    /\ refs = [c \in Callers |-> {}]
    /\ plRet = NoPoolReturn
    /\ cleanups = [s \in SessionIds |-> 0]
    /\ lastCleanup = [sessionId |-> "undefined", redisOptions |-> "undefined", keyPrefix |-> "undefined"]

\* the pool of a session in use: no session is cleaned up
NextPoolUse ==
    \/ \E c \in Callers, s \in PoolSessions, size \in PoolSizes : GetSessionPool(c, s, size)
    \/ \E c \in Callers : CreateClientReturns(c)
    \/ \E c \in Callers : CreateClientRaises(c)
    \/ \E c \in Callers : InitializeReturns(c)
    \/ \E c \in Callers : GetConnection(c)
    \/ \E c \in Callers, connection \in 0..MaxClients : ReleaseConnection(c, connection)

\* useRedisAuthState returns the handle whose closure keeps the connection of
\* `redis = await pool.getConnection()`; nothing after that line touches the pool
UseRedisAuthStateReturns(c, connection) ==
    /\ tasks[c] = Idle
    /\ got[c] # 0
    /\ connection \in held[c]
    /\ plRet' = PoolReturned(c, "useRedisAuthState", got[c], connection)
    /\ UNCHANGED <<sessionPools, pools, clients, quitCalled, quitFailed, tasks, got, held, refs,
                   cleanups, lastCleanup, ssVars, now, notPl>>

\* useRedisAuthState calls with connection options, from the lookup of the
\* session's pool to the return of the handle
NextBorrow ==
    \/ \E c \in Callers, s \in PoolSessions, size \in PoolSizes : GetSessionPool(c, s, size)
    \/ \E c \in Callers : CreateClientReturns(c)
    \/ \E c \in Callers : InitializeReturns(c)
    \/ \E c \in Callers : GetConnection(c)
    \/ \E c \in Callers, connection \in 1..MaxClients : UseRedisAuthStateReturns(c, connection)

\* the life of the pools as the module drives it: releaseConnection is never
\* called by the module
NextPools ==
    \/ \E c \in Callers, s \in PoolSessions, size \in PoolSizes : GetSessionPool(c, s, size)
    \/ \E c \in Callers : CreateClientReturns(c)
    \/ \E c \in Callers : CreateClientRaises(c)
    \/ \E c \in Callers : InitializeReturns(c)
    \/ \E c \in Callers : GetConnection(c)
    \/ \E c \in Callers, s \in PoolSessions : CleanupSession(c, s)
    \/ \E c \in Callers, ok \in BOOLEAN : QuitReturns(c, ok)
    \/ \E c \in Callers : DestroyReturns(c)
    \/ \E c \in Callers : CleanupReturns(c)

\* two sessions side by side, as the module drives them: caller c works for
\* the c-th session, the second takes connections, and a handle is open on
\* the first
SessionOrder == <<"ab", "b">>
SessionOf(c) == SessionOrder[c]
IsolationOptions(h) ==
    {options \in Options :
        options.sessionId = SessionOf(h) /\ options.keyPrefix = "p" /\ options.enableCache}

NextIsolation ==
    \/ \E c \in Callers : GetSessionPool(c, SessionOf(c), 1)
    \/ \E c \in Callers : CreateClientReturns(c)
    \/ \E c \in Callers : InitializeReturns(c)
    \/ GetConnection(2)
    \/ \E c \in Callers : CleanupSession(c, SessionOf(c))
    \/ \E c \in Callers : QuitReturns(c, TRUE)
    \/ \E c \in Callers : DestroyReturns(c)
    \/ \E c \in Callers : CleanupReturns(c)
    \/ \E options \in IsolationOptions(1) : Open(1, options)
    \/ \E creds \in CredsValues : SaveCreds(1, creds)
    \/ StoreExecutes(1, {})
    \/ Delivers(1)

\* the options of the handles opened around a cleanupSession: one key prefix
TeardownOptions == {options \in Options : options.keyPrefix = "p"}

\* handles loading and saving their credentials, and a session being cleaned
\* up in between
NextTeardown ==
    \/ \E h \in Handles, options \in TeardownOptions : Open(h, options)
    \/ \E h \in Handles, creds \in SessionValues : SaveCreds(h, creds)
    \/ \E h \in Handles : StoreExecutes(h, {})
    \/ \E h \in Handles : ConnectionFails(h)
    \/ \E h \in Handles : Delivers(h)
    \/ \E s \in PoolSessions : CleanupSession(1, s)
    \/ \E s \in PoolSessions, options \in TeardownOptions :
            CleanupSessionComplete(1, s, options.redis, options.keyPrefix)

----------------------------------------------------------------------------
(* Specifications *)

Init ==
    /\ InitBatch
    /\ InitBatchManager
    /\ InitMemoryCache
    /\ InitSessions
    /\ InitPools
    /\ InitCodec
    /\ InitExpiry
    /\ InitKeys
    /\ now = 0

Spec == Init /\ [][Next]_vars

SpecSessions == Init /\ [][NextSessions]_vars
SpecReads == Init /\ [][NextReads]_vars
SpecKeys == Init /\ [][NextKeys]_vars
SpecAging == Init /\ [][NextAging]_vars
SpecExpiry == Init /\ [][NextExpiry]_vars

SpecBatch == Init /\ [][NextBatch]_vars

SpecBatchManager == Init /\ [][NextBatchManager]_vars

\* a timer that is armed fires: the event loop runs its timers
SpecBatchManagerFair == SpecBatchManager /\ WF_vars(TimerFires)

SpecMemoryCache == Init /\ [][NextMemoryCache]_vars

SpecPools == Init /\ [][NextPools]_vars

SpecPoolUse == Init /\ [][NextPoolUse]_vars
SpecIsolation == Init /\ [][NextIsolation]_vars
SpecBorrow == Init /\ [][NextBorrow]_vars

SpecTeardown == Init /\ [][NextTeardown]_vars

SpecCodec == Init /\ [][NextCodec]_vars

----------------------------------------------------------------------------
(* Properties of BatchOperationManager.executeBatch, under SpecBatch *)

ebFinished == ebPc = "done"
ebReturned == ebPc = "done" /\ ebError = Null /\ Len(ebOperations) > 0

\* what the reply says about operation i: its error, and its result
EntryError(i) == IF ebRedis = "ioredis" THEN ebResults[i].err ELSE Null
EntryResult(i) == IF ebRedis = "ioredis" THEN ebResults[i].res ELSE ebResults[i]
FailedEntries == {i \in DOMAIN ebOperations : EntryError(i) # Null}

\* how operation i is to be settled according to its own entry of the reply
OwnSettlement(i) ==
    IF EntryError(i) # Null THEN <<Reject(EntryError(i))>>
    ELSE IF ebOperations[i].type = "get" THEN <<Resolve(EntryResult(i))>>
    ELSE <<Resolve(Bool(TRUE))>>

\* C5: when executeBatch has finished, every operation handed to it has had
\* exactly one callback invoked: one resolve or one reject, never both and
\* never twice, also when handing out the results fails part-way.
C5_ExactlyOneCallback ==
    ebFinished => \A i \in DOMAIN ebOperations : Len(ebLog[i]) = 1

\* C6: when the multi-exec round trip raises, every operation of the flush is
\* rejected with that error, and none is resolved.
C6_RaiseRejectsAll ==
    (ebFinished /\ ebError # Null) =>
        \A i \in DOMAIN ebOperations : ebLog[i] = <<Reject(ebError)>>

C6_Witness ==
    /\ ebFinished
    /\ ebError # Null
    /\ \E i, j \in DOMAIN ebOperations :
          ebOperations[i].type = "get" /\ ebOperations[j].type = "set"
    /\ \A i \in DOMAIN ebOperations : ebLog[i] = <<Reject(ebError)>>

\* C7: after a flush whose reply reports no error, each get is resolved with the
\* result at its own position of the reply and each set/del with success,
\* whatever the mix and order of the batch.
C7_GetResolvesOwnResult ==
    (ebReturned /\ ebRedis = "ioredis" /\ FailedEntries = {}) =>
        \A i \in DOMAIN ebOperations : ebLog[i] = OwnSettlement(i)

\* C8: when the reply reports an error for exactly one operation, that
\* operation is rejected with the error and every other operation is settled
\* according to its own result.
C8_OnlyFailedOpRejected ==
    (ebReturned /\ ebRedis = "ioredis" /\ Cardinality(FailedEntries) = 1) =>
        \A i \in DOMAIN ebOperations : ebLog[i] = OwnSettlement(i)

----------------------------------------------------------------------------
(* Properties of MemoryCache, under SpecMemoryCache *)

\* a step that is a call of get: exactly one of the two counters goes up
IsGetStep == hitCount' + missCount' = hitCount + missCount + 1

\* C2: get never returns an entry older than the ttl. It returns absent and
\* removes the entry, whether or not the sweep has run since the entry
\* expired, and it answers a key never set in the same way.
C2_LazyExpiry ==
    [][IsGetStep =>
        LET key == mcRet'.key
            entry == mcCache[key]
        IN  /\ mcRet'.at = now /\ mcRet'.entry = entry
            /\ (entry # NoEntry /\ now - entry.timestamp > mcTtl) =>
                  /\ mcRet'.val = Null
                  /\ mcCache'[key] = NoEntry
                  /\ missCount' = missCount + 1
            /\ entry = NoEntry =>
                  /\ mcRet'.val = Null
                  /\ mcCache'[key] = NoEntry
                  /\ missCount' = missCount + 1
            /\ mcRet'.val # Null =>
                  /\ entry # NoEntry
                  /\ now - entry.timestamp <= mcTtl
                  /\ mcRet'.val = Str(entry.data)]_vars

\* an expired entry was looked up and reported absent while another entry,
\* expired no later, is still in the cache: no sweep has run since
C2_Witness ==
    /\ mcRet.entry # NoEntry
    /\ mcRet.at - mcRet.entry.timestamp > mcTtl
    /\ mcRet.val = Null
    /\ mcRet.at = now
    /\ mcCache[mcRet.key] = NoEntry
    /\ \E k \in MCKeys :
          /\ k # mcRet.key
          /\ mcCache[k] # NoEntry
          /\ mcCache[k].timestamp <= mcRet.entry.timestamp

----------------------------------------------------------------------------
(* Properties of BatchManager *)

FlushCount == Len(bmFlushes)
LastFlush == bmFlushes[Len(bmFlushes)]
IdsOf(ops) == [i \in DOMAIN ops |-> ops[i].id]

\* C9 (SpecBatchManager): an addOperation flushes exactly when it brings the
\* queue to batchSize operations; that flush takes the first batchSize
\* operations not yet flushed, in the order submitted, and nothing else, and
\* leaves an empty queue with no timer; an operation enqueued into an empty
\* queue below the threshold arms a timer of its own.
C9_SizeFlush ==
    [][bmEnqueued' = bmEnqueued + 1 =>
        LET id == bmEnqueued + 1
            flushed == FlushCount' = FlushCount + 1
        IN  /\ flushed <=> Len(operations) + 1 = batchSize
            /\ flushed =>
                  /\ bmFlushes'[FlushCount'].by = "size"
                  /\ bmFlushes'[FlushCount'].ops = Append(IdsOf(operations), id)
                  /\ bmFlushes'[FlushCount'].ops = [i \in 1..batchSize |-> id - batchSize + i]
                  /\ operations' = <<>>
                  /\ flushTimer' = "null"
            /\ ~flushed =>
                  /\ FlushCount' = FlushCount
                  /\ IdsOf(operations') = Append(IdsOf(operations), id)
                  /\ flushTimer' = "armed"
                  /\ operations = <<>> => (flushTimer = "null" /\ bmTimerFor' = id)]_vars

\* a flush by size took batchSize > 1 operations, and a later operation waits
\* in a fresh window with its own timer
C9_Witness ==
    /\ batchSize > 1
    /\ FlushCount > 0
    /\ LastFlush.by = "size"
    /\ Len(LastFlush.ops) = batchSize
    /\ Len(operations) = 1
    /\ flushTimer = "armed"
    /\ bmTimerFor = operations[1].id
    /\ operations[1].id = LastFlush.ops[batchSize] + 1

\* C10 (SpecBatchManagerFair): every operation enqueued is eventually flushed
\* and resolved, also below the size threshold: while the queue is non-empty
\* the timer armed by its first operation is pending, and a flush by size
\* leaves no timer behind, so that the next window arms a new one.
C10_EventuallyFlushed ==
    /\ [](operations # <<>> => (flushTimer = "armed" /\ bmTimerFor = operations[1].id))
    /\ [](operations = <<>> => flushTimer = "null")
    /\ \A id \in 1..MaxEnqueued : [](bmEnqueued >= id => <>(bmResolved[id] = 1))

\* fewer than batchSize operations were enqueued and the timer flushed them
C10_Witness ==
    /\ FlushCount > 0
    /\ LastFlush.by = "timer"
    /\ Len(LastFlush.ops) < batchSize
    /\ \A i \in DOMAIN LastFlush.ops : bmResolved[LastFlush.ops[i]] = 1
    /\ operations = <<>>
    /\ flushTimer = "null"

\* the ids of all flushes so far
FlushedIds == UNION {{bmFlushes[f].ops[i] : i \in DOMAIN bmFlushes[f].ops} : f \in DOMAIN bmFlushes}

\* C11 (SpecBatchManager): a flush takes the whole queue in one step, so that
\* an operation enqueued later is never part of it: no operation is in two
\* flushes, every flush leaves an empty queue without a timer, and whatever
\* is queued was enqueued after every flush so far and waits in a window
\* whose timer was armed by its own first operation.
C11_FlushTakesWholeQueue ==
    /\ [](\A f, g \in DOMAIN bmFlushes :
            \A i \in DOMAIN bmFlushes[f].ops, j \in DOMAIN bmFlushes[g].ops :
                bmFlushes[f].ops[i] = bmFlushes[g].ops[j] => (f = g /\ i = j))
    /\ [](\A i \in DOMAIN operations :
            /\ operations[i].id \notin FlushedIds
            /\ \A id \in FlushedIds : id < operations[i].id
            /\ bmTimerFor = operations[1].id)
    /\ [][FlushCount' = FlushCount + 1 =>
            /\ \/ bmFlushes'[FlushCount'].ops = IdsOf(operations)
               \/ bmFlushes'[FlushCount'].ops = Append(IdsOf(operations), bmEnqueued')
            /\ operations' = <<>>
            /\ flushTimer' = "null"]_vars

\* two flushes have taken their queues and a later operation waits in a
\* third window with a timer of its own
C11_Witness ==
    /\ FlushCount >= 2
    /\ Len(operations) >= 1
    /\ flushTimer = "armed"
    /\ bmTimerFor = operations[1].id
    /\ \A id \in FlushedIds : id < operations[1].id
    /\ \E f \in DOMAIN bmFlushes : bmFlushes[f].by = "timer"

----------------------------------------------------------------------------
(* Properties of the connection pool *)

PoolConnections == UNION {{pools[p].connections[i] : i \in DOMAIN pools[p].connections} : p \in DOMAIN pools}
AvailableOf(p) == {pools[p].availableConnections[i] : i \in DOMAIN pools[p].availableConnections}
Holders(connection) == {c \in Callers : connection \in held[c]}

\* C12 (SpecPoolUse): whatever getConnection and releaseConnection calls the
\* callers make, also a release of a connection the caller has released
\* before, no connection of a pool is in the hands of two callers at once,
\* and none is available while a caller holds it.
C12_NoDoubleLending ==
    \A p \in DOMAIN pools : \A i \in DOMAIN pools[p].connections :
        LET connection == pools[p].connections[i]
        IN  /\ Cardinality(Holders(connection)) <= 1
            /\ connection \in AvailableOf(p) => Holders(connection) = {}

\* C13 (SpecPools): getConnection on a pool with no available connection
\* never raises: it returns a connection made for the call, which is in none
\* of the pool's three collections.
C13_ExhaustedGetReturnsAdHoc ==
    plRet.fn = "getConnection" =>
        /\ plRet.out = "return"
        /\ plRet.val \notin PoolConnections =>
                \A p \in DOMAIN pools :
                    plRet.val \notin AvailableOf(p) \cup pools[p].usedConnections

ConnectionsOf(p) == {pools[p].connections[i] : i \in DOMAIN pools[p].connections}

\* C14 (SpecPoolUse): releaseConnection returns without an error; given a
\* connection that is not in use in the pool (made ad hoc, never acquired, or
\* already available) it leaves the pool as it was; given a connection in use
\* it takes it from the in-use set and appends it to the available ones, and
\* that connection is one the pool owns.
C14_ReleaseFrame ==
    [][plRet'.fn = "releaseConnection" =>
        LET p == got[plRet'.c]
            connection == plRet'.arg
        IN  /\ plRet'.out = "return"
            /\ got' = got /\ sessionPools' = sessionPools
            /\ \A q \in DOMAIN pools : q # p => pools'[q] = pools[q]
            /\ IF connection \in pools[p].usedConnections
               THEN /\ connection \in ConnectionsOf(p)
                    /\ pools'[p] = [pools[p] EXCEPT
                                      !.usedConnections = @ \ {connection},
                                      !.availableConnections = Append(@, connection)]
               ELSE pools'[p] = pools[p]]_vars

C14_Witness ==
    /\ plRet.fn = "releaseConnection"
    /\ plRet.val = FALSE
    /\ plRet.arg \in (1..clients) \ PoolConnections
    /\ pools[got[plRet.c]].usedConnections # {}
    /\ pools[got[plRet.c]].availableConnections # <<>>

Registered == {sessionPools[s] : s \in SessionIds} \ {0}
Received == {got[c] : c \in Callers} \ {0}

\* C15 (SpecPools): initialize makes poolSize connections or fails as a
\* whole. When the creation of a connection fails, getSessionPool throws to
\* its caller, the registry is left as it was and the caller receives no
\* pool; a pool whose initialize failed or has not finished is never in the
\* registry nor in a caller's hands; and a pool has exactly poolSize
\* connections at the moment it is registered and returned.
C15_InitializeAllOrNothing ==
    /\ [](\A p \in Registered \cup Received : pools[p].status \in {"ready", "destroyed"})
    /\ [][\A p \in DOMAIN pools : (pools[p].status = "new" /\ pools'[p].status = "failed") =>
            /\ plRet'.fn = "getSessionPool" /\ plRet'.out = "throw"
            /\ sessionPools' = sessionPools
            /\ got' = got]_vars
    /\ [][\A p \in DOMAIN pools : (pools[p].status = "new" /\ pools'[p].status = "ready") =>
            /\ Len(pools'[p].connections) = pools'[p].poolSize
            /\ Len(pools'[p].availableConnections) = pools'[p].poolSize
            /\ sessionPools'[pools[p].sessionId] = p
            /\ plRet' = PoolReturned(plRet'.c, "getSessionPool", pools[p].sessionId, p)
            /\ got'[plRet'.c] = p]_vars

C15_Witness ==
    /\ plRet.fn = "getSessionPool" /\ plRet.out = "throw"
    /\ \E p \in DOMAIN pools :
          /\ pools[p].status = "failed"
          /\ pools[p].poolSize = 2
          /\ Len(pools[p].connections) = 1
          /\ sessionPools[pools[p].sessionId] = 0
    /\ got[plRet.c] = 0

\* C16 (SpecPools): destroy calls quit on every connection the pool owns,
\* goes on to the next one when a quit throws, returns without an error, and
\* leaves connections, availableConnections and usedConnections empty.
C16_DestroyShutsDownAll ==
    /\ [](plRet.fn = "destroy" => plRet.out = "return")
    /\ [][plRet'.fn = "destroy" =>
            LET p == plRet'.arg
            IN  /\ ConnectionsOf(p) \subseteq quitCalled'
                /\ pools'[p].connections = <<>>
                /\ pools'[p].availableConnections = <<>>
                /\ pools'[p].usedConnections = {}]_vars
    /\ [][\A c \in Callers : (tasks[c].op = "destroy" /\ tasks'[c].op = "destroy" /\ tasks'[c] # tasks[c]) =>
            /\ tasks'[c].i = tasks[c].i + 1
            /\ quitCalled' = quitCalled \cup {tasks[c].connections[tasks[c].i]}]_vars

C16_Witness ==
    /\ plRet.fn = "destroy" /\ plRet.out = "return"
    /\ pools[plRet.arg].poolSize = 2
    /\ pools[plRet.arg].connections = <<>>
    /\ \E x \in quitFailed, y \in quitCalled \ quitFailed : x < y

\* C17 (SpecPoolUse): from the return of initialize on, a pool owns exactly
\* poolSize connections, all different; availableConnections and
\* usedConnections hold only connections of the pool, have none in common,
\* and together hold each connection of the pool exactly once.
C17_PoolPartition ==
    \A p \in DOMAIN pools : pools[p].status = "ready" =>
        /\ Len(pools[p].connections) = pools[p].poolSize
        /\ Cardinality(ConnectionsOf(p)) = pools[p].poolSize
        /\ AvailableOf(p) \cup pools[p].usedConnections = ConnectionsOf(p)
        /\ AvailableOf(p) \cap pools[p].usedConnections = {}
        /\ Cardinality(AvailableOf(p)) = Len(pools[p].availableConnections)

C17_Witness ==
    \E p \in DOMAIN pools :
        /\ pools[p].status = "ready"
        /\ pools[p].poolSize = 2
        /\ Len(pools[p].availableConnections) = 1
        /\ Cardinality(pools[p].usedConnections) = 1
        /\ plRet.fn = "releaseConnection" /\ plRet.val = TRUE
        /\ pools[p].availableConnections[1] = plRet.arg

\* two pools made for the same session with no cleanupSession of it between
SameEpoch(p, q) ==
    /\ pools[p].sessionId = pools[q].sessionId
    /\ pools[p].epoch = pools[q].epoch
    /\ pools[p].status # "failed" /\ pools[q].status # "failed"

\* C18 (SpecPools): as long as a session is not cleaned up, the calls that
\* get or create its cache and its pool make one cache and one pool, also
\* when a call arrives while the initialize of an earlier one is awaited,
\* and every caller receives that same pool.
C18_OnePoolPerSession ==
    /\ \A p, q \in DOMAIN pools : SameEpoch(p, q) => p = q
    /\ \A c, d \in Callers : (got[c] # 0 /\ got[d] # 0 /\ SameEpoch(got[c], got[d])) => got[c] = got[d]
    /\ (\A s \in SessionIds : cleanups[s] = 0) =>
            \A m \in DOMAIN cacheMaps : \E s \in SessionIds : sessionCaches[s] = m

CleanupBegins(s) == cleanups'[s] = cleanups[s] + 1
CleanupEnds(c) == tasks[c].op = "cleanup" /\ tasks'[c] = Idle

\* C19 (SpecPools): cleanupSession removes the cache of the session at once;
\* the pool of the session stays registered while destroy runs and its entry
\* is removed only once destroy of that pool has returned; if no cache was
\* made for the session meanwhile, neither registry has an entry for it when
\* cleanupSession returns; for a session with no cache and no pool the call
\* returns without an error and changes nothing.
C19_CleanupOrder ==
    /\ [][\A s \in SessionIds : CleanupBegins(s) =>
            /\ sessionCaches'[s] = 0
            /\ sessionPools' = sessionPools
            /\ pools' = pools
            /\ sessionPools[s] = 0 =>
                    /\ plRet'.fn = "cleanupSession" /\ plRet'.out = "return"
                    /\ tasks' = tasks
                    /\ sessionCaches[s] = 0 => sessionCaches' = sessionCaches]_vars
    /\ [][\A s \in SessionIds : (sessionPools[s] # 0 /\ sessionPools'[s] = 0) =>
            \E c \in Callers :
                /\ CleanupEnds(c)
                /\ tasks[c].sessionId = s
                /\ pools[tasks[c].pool].status = "destroyed"
                /\ plRet' = PoolReturned(c, "cleanupSession", s, tasks[c].pool)]_vars
    /\ [][\A c \in Callers : CleanupEnds(c) =>
            /\ sessionPools'[tasks[c].sessionId] = 0
            /\ pools[tasks[c].pool].status = "destroyed"
            /\ Len(cacheMaps) = tasks[c].caches => sessionCaches'[tasks[c].sessionId] = 0]_vars

C19_Witness ==
    /\ plRet.fn = "cleanupSession" /\ plRet.out = "return" /\ plRet.val # 0
    /\ pools[plRet.val].status = "destroyed"
    /\ pools[plRet.val].poolSize = 2
    /\ sessionPools[plRet.arg] = 0
    /\ sessionCaches[plRet.arg] = 0
    /\ Len(cacheMaps) = 1

----------------------------------------------------------------------------
(* Properties of the sessions: read after write and deletion under Spec,   *)
(* isolation under SpecSessions                                            *)

SameSession(a, b) ==
    /\ handles[a].keyPrefix = handles[b].keyPrefix
    /\ handles[a].sessionId = handles[b].sessionId

\* in this step bulkRead(keys) is called through handle h
BulkReadIssued(h, keys) ==
    /\ calls' = calls + 1
    /\ \/ ret'.fn = "bulkRead" /\ ret'.h = h /\ ret'.arg = keys
       \/ /\ Len(conn'[h]) = Len(conn[h]) + 1
          /\ conn'[h][Len(conn'[h])].fn = "bulkRead"
          /\ conn'[h][Len(conn'[h])].arg = keys

\* a write of a value to the key returned successfully, no write of the key
\* was started since, and the cache TTL has not run out since the write
\* cached the value
WrittenWithinTTL ==
    /\ settled # Null
    /\ settled.val # Null
    /\ settled.key \in DataKeys
    /\ handles[settled.h].enableCache
    /\ now - settled.at <= handles[settled.h].cacheTTL

\* C1: after a write of v to key k has returned successfully, a read of k
\* issued within the cache TTL through a handle of the session returns
\* exactly v, and returns it from the cache, without a round trip to the store.
C1_ReadAfterWrite ==
    [][\A h \in Handles :
          (/\ WrittenWithinTTL
           /\ IsReady(h)
           /\ SameSession(h, settled.h)
           /\ handles[h].enableCache
           /\ BulkReadIssued(h, <<settled.key>>))
          => /\ ret'.fn = "bulkRead"
             /\ ret'.trips = 0
             /\ DOMAIN ret'.val = {settled.key}
             /\ ret'.val[settled.key] = settled.val]_vars

\* a bulkWrite with an absent value for the key returned successfully and no
\* write of the key was started since
DeletedKey ==
    /\ settled # Null
    /\ settled.val = Null
    /\ settled.key \in DataKeys

\* C4: after bulkWrite with an absent value for key a has returned, a is in
\* neither the store nor the session cache, and a bulkRead([a]) that is then
\* answered from the cache returns a mapping without a.
C4_DeleteThenBulkRead ==
    /\ [](\A h \in Handles :
            (DeletedKey /\ h = settled.h)
            => /\ store[HandleKey(handles[h], settled.key)] = Null
               /\ cacheMaps[handles[h].sessionCache][HandleKey(handles[h], settled.key)] = NoEntry)
    /\ [][\A h \in Handles :
            (/\ DeletedKey
             /\ IsReady(h)
             /\ SameSession(h, settled.h)
             /\ BulkReadIssued(h, <<settled.key>>)
             /\ ret'.fn = "bulkRead")
            => settled.key \notin DOMAIN ret'.val]_vars

\* in this step the store executes a request of handle h
StoreStep(h) ==
    /\ handles[h] # NoHandle
    /\ FirstPending(conn[h]) # 0
    /\ Len(conn'[h]) = Len(conn[h])
    /\ conn'[h][FirstPending(conn[h])].reply.t = "ok"

\* the key of a command belongs to the session of the handle alone: whatever
\* value it holds was set through a handle of that session
OwnKey(h, key) ==
    writer[key] # Null => writer[key].sessionId = handles[h].sessionId

\* C3: two distinct sessions never observe each other's values: a read issued
\* through a handle reaches only store keys written through the handle's own
\* session, a write changes only such keys, and handles of distinct sessions
\* never share a cache.
C3_SessionIsolation ==
    /\ [](\A a, b \in Handles :
            (handles[a] # NoHandle /\ handles[b] # NoHandle
                /\ handles[a].sessionId # handles[b].sessionId)
            => handles[a].sessionCache # handles[b].sessionCache)
    /\ [][\A h \in Handles :
            StoreStep(h) =>
                \A c \in DOMAIN conn[h][FirstPending(conn[h])].cmds :
                    OwnKey(h, conn[h][FirstPending(conn[h])].cmds[c].key)]_vars

----------------------------------------------------------------------------
(* Properties of cleanupSession and the store *)

\* in this step useRedisAuthState is called for handle h and gets a cache
\* that did not exist before
OpensOnFreshCache(h) ==
    /\ handles[h] = NoHandle
    /\ handles'[h] # NoHandle
    /\ handles'[h].sessionCache \notin DOMAIN cacheMaps

\* in this step the credential load of handle h returns
CredsLoaded(h) ==
    /\ Len(conn[h]) > 0
    /\ Head(conn[h]).fn = "readData"
    /\ Head(conn[h]).reply # NotYet
    /\ conn'[h] = Tail(conn[h])

\* C20 (SpecTeardown): cleanupSession sends no command to the store and
\* deletes nothing from it: every key the store held is still there with its
\* value. A useRedisAuthState that follows for the session finds no cached
\* credentials and asks the store for them; the store answers with the value
\* it holds, which is what was written before the cleanup, and the load
\* returns the credentials that serialize to that value.
C20_TeardownKeepsStore ==
    /\ [](\A key \in RedisKeys : store[key] # Null =>
            \E v \in SessionValues : store[key] = FastSerialize(v) /\ FastDeserialize(store[key]) = v)
    /\ [][\A s \in SessionIds : CleanupBegins(s) =>
            /\ store' = store
            /\ conn' = conn
            /\ writer' = writer
            /\ plRet'.fn = "cleanupSession" /\ plRet'.out = "return"]_vars
    /\ [][\A h \in Handles : OpensOnFreshCache(h) =>
            /\ Len(conn'[h]) = 1
            /\ conn'[h][1].fn = "readData"
            /\ conn'[h][1].cmds = <<Command("get", HandleKey(handles'[h], "creds"), Null)>>]_vars
    /\ [][\A h \in Handles : (StoreStep(h) /\ conn[h][FirstPending(conn[h])].fn = "readData") =>
            /\ conn'[h][FirstPending(conn[h])].reply.results[1] = store[HandleKey(handles[h], "creds")]
            /\ store' = store]_vars
    /\ [][\A h \in Handles : (CredsLoaded(h) /\ Head(conn[h]).reply.t = "ok") =>
            LET data == Head(conn[h]).reply.results[1]
            IN  /\ ret'.fn = "readData" /\ ret'.h = h /\ ret'.out = "return"
                /\ data = Null => ret'.val = Null
                /\ data # Null => (ret'.val \in SessionValues /\ FastSerialize(ret'.val) = data)]_vars

C20_Witness ==
    /\ handles[1] # NoHandle /\ handles[2] # NoHandle
    /\ SameSession(1, 2)
    /\ handles[1].sessionCache # handles[2].sessionCache
    /\ cleanups[handles[1].sessionId] = 1
    /\ settled # Null /\ settled.h = 1 /\ settled.key = "creds" /\ settled.val = Buf(2)
    /\ ret = Returned(2, "readData", "creds", settled.val, 1)
    /\ store[HandleKey(handles[2], "creds")] = FastSerialize(settled.val)

\* the keys a scan of the store for `${keyPrefix}${sessionId}:*` returns
ScanSession(data, keyPrefix, sessionId) ==
    {key \in DOMAIN data :
        /\ data[key] # Null
        /\ \E k \in Keys : key = GetRedisKey(SessionKey(keyPrefix, sessionId), k)}

\* in this step a call of cleanupSession returns
CleanupReturnsNow ==
    /\ plRet'.fn = "cleanupSession" /\ plRet'.out = "return"
    /\ \/ \E s \in SessionIds : CleanupBegins(s)
       \/ \E c \in Callers : CleanupEnds(c)

\* C21 (SpecTeardown): when cleanupSession, called with the session id, Redis
\* options and the key prefix, returns, the session has no cache and no pool
\* registered and the store holds no key under `${keyPrefix}${sessionId}`: a
\* scan for the prefix returns nothing.
C21_CompleteTeardown ==
    [][(/\ CleanupReturnsNow
        /\ lastCleanup'.sessionId = plRet'.arg
        /\ lastCleanup'.redisOptions # "undefined")
       => /\ sessionCaches'[plRet'.arg] = 0
          /\ sessionPools'[plRet'.arg] = 0
          /\ ScanSession(store', lastCleanup'.keyPrefix, plRet'.arg) = {}]_vars

----------------------------------------------------------------------------
(* Properties of the serializers *)

\* two values are the same: binary payloads by their bytes, arrays and
\* objects member by member, anything else by identity
RECURSIVE SameValue(_, _)
SameValue(a, b) ==
    CASE a.t \in {"Buffer", "Uint8Array"} ->
            b.t \in {"Buffer", "Uint8Array"} /\ a.bytes = b.bytes
      [] a.t = "array" ->
            /\ b.t = "array" /\ Len(b.items) = Len(a.items)
            /\ \A i \in DOMAIN a.items : SameValue(a.items[i], b.items[i])
      [] a.t = "object" ->
            /\ b.t = "object" /\ b.keys = a.keys
            /\ \A i \in DOMAIN a.vals : SameValue(a.vals[i], b.vals[i])
      [] OTHER -> a = b

\* C22 (SpecCodec): deserialize(serialize(v, c), c) is v for every value v
\* made of nested objects, arrays, scalars and binary payloads and every
\* compression argument c, and fastDeserialize(fastSerialize(v)) is v too.
C22_RoundTrip ==
    cdOut # NotSet => SameValue(cdIn, cdOut)

----------------------------------------------------------------------------
(* Properties of the writes *)

\* in this step the function that issued the oldest request of handle h
\* receives the reply and returns or throws
Completes(h, fn) ==
    /\ Len(conn[h]) > 0
    /\ Head(conn[h]).fn = fn
    /\ Head(conn[h]).reply # NotYet
    /\ conn'[h] = Tail(conn[h])
    /\ ret'.h = h /\ ret'.fn = fn

\* C23 (Spec): writeData and bulkWrite return successfully only if the round
\* trip succeeded and the store reported no error for any set or delete of
\* the call; otherwise they throw.
C23_SuccessMeansApplied ==
    [][\A h \in Handles : \A fn \in {"writeData", "bulkWrite"} :
          (Completes(h, fn) /\ ret'.out = "return") =>
              /\ Head(conn[h]).reply.t = "ok"
              /\ NoErrorIn(Head(conn[h]).reply.results)]_vars

----------------------------------------------------------------------------
(* Properties of the reads *)

\* the value the logical key has for handle h: the unexpired cache entry if
\* there is one, else what the store holds
CurrentValue(h, key) ==
    LET H == handles[h]
        g == GetCachedData(cacheMaps[H.sessionCache], H, HandleKey(H, key), now)
    IN  IF g.val # Null THEN g.val
        ELSE IF store[HandleKey(H, key)] = Null THEN Null
        ELSE FastDeserialize(store[HandleKey(H, key)])

\* no other operation is outstanding on any connection: nothing was issued
\* after the request at the head of h's queue
Alone(h) ==
    /\ Len(conn[h]) = 1
    /\ \A g \in Handles \ {h} : conn[g] = <<>>

\* C24 (Spec): the mapping bulkRead(keys) returns has exactly the requested
\* keys that have a value, in the unexpired cache or in the store, each with
\* its value; a key is left out only if it has none.  Stated for a bulkRead
\* that returns while no other operation is outstanding.
C24_BulkReadExact ==
    [][\A h \in Handles :
          (Completes(h, "bulkRead") /\ Alone(h)) =>
              /\ ret'.out = "return"
              /\ \A i \in DOMAIN ret'.arg :
                    LET key == ret'.arg[i]
                    IN  /\ key \in DOMAIN ret'.val <=> CurrentValue(h, key) # Null
                        /\ key \in DOMAIN ret'.val => ret'.val[key] = CurrentValue(h, key)
              /\ \A key \in DOMAIN ret'.val : \E i \in DOMAIN ret'.arg : ret'.arg[i] = key]_vars

\* a stored payload that fastDeserialize cannot parse
Malformed(data) == data # Null /\ data.t = "str" /\ JsonParse(data.s) = Throw

\* the reply to the i-th GET of a request
ReplyTo(req, i) ==
    IF req.multi THEN Idx(ArrGet(req.reply.results, i - 1), 1) ELSE req.reply.results[i]

\* the logical key the i-th GET of a request was sent for
KeyOf(req, i) == IF req.fn = "readData" THEN req.arg ELSE req.loc.missingKeys[i]

\* C25 (SpecReads): when a stored payload is malformed, the read that meets it
\* ends in an error instead of reporting the key as absent, the cache entry of
\* that key stays as it was, and a bulk read still returns and caches the
\* values of the other keys it asked for.
C25_MalformedIsError ==
    [][\A h \in Handles : \A fn \in {"readData", "bulkRead"} :
          (/\ Completes(h, fn)
           /\ Head(conn[h]).reply.t = "ok"
           /\ \E i \in DOMAIN Head(conn[h]).cmds : Malformed(ReplyTo(Head(conn[h]), i)))
          => LET req == Head(conn[h])
                 H == handles[h]
                 map == cacheMaps[H.sessionCache]
                 map2 == cacheMaps'[H.sessionCache]
             IN  /\ fn = "readData" => ret'.out = "throw"
                 /\ \A i \in DOMAIN req.cmds :
                       LET data == ReplyTo(req, i)
                           key == KeyOf(req, i)
                           cacheKey == HandleKey(H, key)
                       IN  IF Malformed(data)
                           THEN /\ map2[cacheKey] = map[cacheKey]
                                /\ fn = "bulkRead" => key \notin DOMAIN ret'.val
                           ELSE Truthy(data) =>
                                /\ key \in DOMAIN ret'.val
                                /\ ret'.val[key] = FastDeserialize(data)
                                /\ H.enableCache => map2[cacheKey] # NoEntry]_vars

----------------------------------------------------------------------------
(* Properties of the expiring writes *)

\* setWithExpiration finds no method of the client to set a value with expiry
NoExpiryMethod(redis) ==
    LET clientInfo == DetectRedisClient(redis)
    IN  CASE clientInfo.type = "ioredis" -> "setex" \notin redis.methods
          [] clientInfo.type = "redis" ->
                redis.methods \cap {"setEx", "setex", "setEX", "set"} = {}
          [] OTHER -> TRUE

\* the last step was a writeData with ttl > 0 on a client without such a
\* method, whose plain set exists and is not rejected
FallbackWrite ==
    /\ exRet.fn = "writeData"
    /\ HasTtl(exTtl)
    /\ NoExpiryMethod(exRedis)
    /\ "set" \in exRedis.methods
    /\ exRet.rejects = 0

PlainSetAt(i) == exTrace[i] = Event("set", NoExpiry, TRUE)
WarnAt(i) == exTrace[i] = Event("warn", NoExpiry, TRUE)

SupportsExpiry(redis) == ~NoExpiryMethod(redis)

\* C27 (SpecExpiry): with ttl > 0 and a client that supports set-with-expiry,
\* every value writeData or bulkWrite stores carries an expiry of ttl seconds;
\* a value is stored without expiry only when ttl is 0 or undefined or the
\* client lacks the capability.
C27_StoredWithTtl ==
    [][\A key \in ExKeys :
          (exStore'[key] # exStore[key] /\ exStore'[key].value # Null) =>
              /\ (HasTtl(exTtl) /\ SupportsExpiry(exRedis)) => exStore'[key].ex = exTtl.n
              /\ exStore'[key].ex = NoExpiry => (~HasTtl(exTtl) \/ ~SupportsExpiry(exRedis))]_vars

----------------------------------------------------------------------------
(* Properties of the borrowed connections *)

\* every useRedisAuthState call made so far has returned its handle
AllCallsComplete ==
    \A c \in Callers : tasks'[c] = Idle /\ (got'[c] # 0 => held'[c] # {})

\* C28 (SpecBorrow): a connection taken from a session's pool is given back
\* when the work it was taken for completes: once the useRedisAuthState calls
\* for a session have returned and no operation is running, the pool has
\* poolSize available connections again.
C28_BorrowedIsReturned ==
    [][(plRet'.fn = "useRedisAuthState" /\ AllCallsComplete) =>
          LET p == plRet'.arg
          IN  Len(pools'[p].availableConnections) = pools'[p].poolSize]_vars

----------------------------------------------------------------------------
(* Properties of the expiry of cache entries *)

\* twice the period of the sweep, min(ttl / 2, 15 s)
TwiceSweepPeriod(ttl) == IF ttl < 2 * FifteenSeconds THEN ttl ELSE 2 * FifteenSeconds

\* at time t the entry has been expired for a whole period of the sweep
Overdue(t, timestamp, ttl) ==
    \E k \in 1..t : 2 * k >= TwiceSweepPeriod(ttl) /\ CacheExpired(t - k, timestamp, ttl)

\* C29 (SpecAging): an expired entry of a session's cache is removed by the
\* sweep that runs every min(ttl/2, 15 s), looked up again or not: no entry
\* that has been expired for a whole period of the sweep is still in the cache.
C29_ExpiredIsSwept ==
    \A h \in Handles : handles[h] # NoHandle =>
        LET H == handles[h]
            map == cacheMaps[H.sessionCache]
        IN  \A key \in DOMAIN map :
                map[key] # NoEntry => ~Overdue(now, map[key].timestamp, H.cacheTTL)

----------------------------------------------------------------------------
(* Properties of the counters of MemoryCache *)

\* get(key) finds an entry that has not expired
Fresh(key) ==
    mcCache[key] # NoEntry /\ ~(now - mcCache[key].timestamp > mcTtl)

CountersKept == hitCount' = hitCount /\ missCount' = missCount

\* C30 (SpecMemoryCache): hitCount and missCount never decrease under get, set
\* or delete; every get adds one to exactly one of them, to hitCount when it
\* returns an unexpired entry and to missCount when the key is absent or
\* expired; and only clear() sets them back to zero.
C30_Counters ==
    [][/\ \A key \in MCKeys : MCGet(key) =>
             IF Fresh(key)
             THEN /\ hitCount' = hitCount + 1 /\ missCount' = missCount
                  /\ mcRet'.val = Str(mcCache[key].data)
             ELSE /\ missCount' = missCount + 1 /\ hitCount' = hitCount
                  /\ mcRet'.val = Null
       /\ (mcTtl' = mcTtl /\ ~(\E key \in MCKeys : MCGet(key))) =>
             \/ CountersKept
             \/ /\ hitCount' = 0 /\ missCount' = 0
                /\ \A key \in MCKeys : mcCache'[key] = NoEntry]_vars

\* a hit and a miss have been counted, the last get met an expired entry, and
\* another entry is in the cache
C30_Witness ==
    /\ hitCount > 0 /\ missCount > 0
    /\ mcRet.entry # NoEntry /\ mcRet.val = Null
    /\ \E key \in MCKeys : mcCache[key] # NoEntry

----------------------------------------------------------------------------
(* Properties of sessions side by side *)

\* what the module keeps for session s: its two registry entries, the
\* contents of its cache and its pools
CacheOfSession(caches, maps, s) == IF caches[s] = 0 THEN <<>> ELSE maps[caches[s]]
PoolsOfSession(ps, s) == [p \in {q \in DOMAIN ps : ps[q].sessionId = s} |-> ps[p]]

OthersKept(s1) ==
    \A s2 \in SessionIds \ {s1} :
        /\ sessionCaches'[s2] = sessionCaches[s2]
        /\ sessionPools'[s2] = sessionPools[s2]
        /\ CacheOfSession(sessionCaches', cacheMaps', s2) = CacheOfSession(sessionCaches, cacheMaps, s2)
        /\ PoolsOfSession(pools', s2) = PoolsOfSession(pools, s2)

\* the pool a step of caller c works on, 0 if the step is not one of c
PoolOfStep(c) ==
    IF tasks[c] # Idle /\ tasks'[c] # tasks[c] THEN tasks[c].pool
    ELSE IF tasks'[c] # Idle /\ tasks'[c] # tasks[c] THEN tasks'[c].pool
    ELSE IF got'[c] # got[c] THEN got'[c]
    ELSE IF held'[c] # held[c] THEN got[c]
    ELSE 0

\* the step is a step of an operation on session s1: of a call on one of its
\* pools, of getSessionPool or cleanupSession for it, or of one of its handles
OperationOn(s1) ==
    \/ \E c \in Callers : PoolOfStep(c) # 0 /\ pools'[PoolOfStep(c)].sessionId = s1
    \/ /\ plRet' # plRet
       /\ plRet'.fn \in {"getSessionPool", "cleanupSession"}
       /\ plRet'.arg = s1
    \/ \E h \in Handles :
          /\ handles'[h] # NoHandle
          /\ handles'[h].sessionId = s1
          /\ handles'[h] # handles[h] \/ conn'[h] # conn[h]

\* a suspended call can take its next step whatever the calls for the other
\* sessions are doing
NeverWaits ==
    /\ \A c \in Callers :
          /\ tasks[c].op = "destroy" => ENABLED (QuitReturns(c, TRUE) \/ DestroyReturns(c))
          /\ tasks[c].op = "cleanup" => ENABLED CleanupReturns(c)
          /\ (/\ tasks[c].op = "initialize"
              /\ Len(pools[tasks[c].pool].connections) = pools[tasks[c].pool].poolSize)
             => ENABLED InitializeReturns(c)
    /\ \A h \in Handles :
          (handles[h] # NoHandle /\ conn[h] # <<>>) =>
              IF Head(conn[h]).reply = NotYet
              THEN ENABLED StoreExecutes(h, {}) ELSE ENABLED Delivers(h)

----------------------------------------------------------------------------
(* Properties of the key mapping *)

\* C32 (SpecKeys): for a fixed prefix the mapping from (sessionId, logical
\* key) to the transport key is collision-free, also with ':' in session ids
\* or logical keys: what a handle reads under its key was written for the
\* same session and the same logical key.
C32_NoKeyCollision ==
    kyRet.val # NotWritten =>
        /\ kyRet.val.sessionId = kyRet.sessionId
        /\ KeyedId(kyRet.val.category, kyRet.val.id) = KeyedId(kyRet.type, kyRet.id)

\* C36 (SpecKeys): state.keys.get(type, [id]) returns for id only a value that
\* state.keys.set stored under the same (type, id) of the session, also with
\* '-' in categories or ids.
C36_SameTypeAndId ==
    (kyRet.val # NotWritten /\ kyRet.val.sessionId = kyRet.sessionId) =>
        /\ kyRet.val.category = kyRet.type
        /\ kyRet.val.id = kyRet.id

(* Properties of a read that overlaps a bulkWrite *)

\* a bulkWrite of the key returned successfully, no write of the key was
\* started since, and no operation of the session is outstanding
BulkWriteCompleted(h) ==
    /\ settled # Null
    /\ settled.key \in DataKeys
    /\ h = settled.h
    /\ \A g \in Handles : conn[g] = <<>>

\* C33 (Spec): once a bulkWrite that sets or deletes key k has completed and
\* every read that overlapped it has completed too, the session cache holds
\* for k, within the cache TTL, nothing older than the store: either no
\* entry, or the value of the bulkWrite, or the value a read of the store
\* gives now; after a delete it holds no entry.
C33_CacheNotOlderThanStore ==
    \A h \in Handles :
        BulkWriteCompleted(h) =>
            LET H == handles[h]
                redisKey == HandleKey(H, settled.key)
                cached == GetCachedData(cacheMaps[H.sessionCache], H, redisKey, now).val
            IN  cached # Null =>
                    \/ cached = settled.val
                    \/ /\ store[redisKey] # Null
                       /\ cached = FastDeserialize(store[redisKey])

(* Properties of a bulkWrite that fails *)

\* bulkWrite through handle h has just thrown and nothing is outstanding
BulkWriteFailed(h) ==
    /\ ret.h = h /\ ret.fn = "bulkWrite" /\ ret.out = "throw"
    /\ \A g \in Handles : conn[g] = <<>>

\* C34 (Spec): when bulkWrite has failed because its pipeline exec raised, no
\* key of the failed call is cached with a value of the call that was not
\* persisted: a value of the call found in the unexpired cache is the value
\* the store holds.
C34_FailedBulkWriteNotCached ==
    \A h \in Handles :
        BulkWriteFailed(h) =>
            \A key \in DOMAIN ret.arg :
                LET H == handles[h]
                    redisKey == HandleKey(H, key)
                    cached == GetCachedData(cacheMaps[H.sessionCache], H, redisKey, now).val
                IN  (ret.arg[key] # Null /\ cached = ret.arg[key]) =>
                        store[redisKey] = FastSerialize(ret.arg[key])

(* Properties of the credential load *)

\* the store holds credentials for the session of handle h
CredsPersisted(h) == store[HandleKey(handles[h], "creds")] # Null

\* the store answered the credential load of handle h with "no such key"
NothingStored(reply) == reply.t = "ok" /\ reply.results[1] = Null

\* C35 (SpecSessions): while credentials are persisted under the 'creds' key
\* of the session, a credential load that the store did not answer with "no
\* such key" does not return as if nothing were stored, which is what makes
\* useRedisAuthState hand out freshly initialized credentials.
C35_FailedLoadIsNotEmpty ==
    [][\A h \in Handles :
          (/\ CredsLoaded(h)
           /\ CredsPersisted(h)
           /\ ~NothingStored(Head(conn[h]).reply))
          => ~(ret'.h = h /\ ret'.out = "return" /\ ret'.val = Null)]_vars

(* Properties of the handles of one session *)

\* C37 (SpecTeardown): at any time the handles useRedisAuthState has returned
\* for one sessionId read and write one and the same cache, also a handle
\* obtained before a cleanupSession and one obtained after it.
C37_OneCachePerSession ==
    \A h \in Handles, g \in Handles :
        (/\ IsReady(h) /\ handles[h].enableCache
         /\ IsReady(g) /\ handles[g].enableCache
         /\ handles[h].sessionId = handles[g].sessionId)
        => handles[h].sessionCache = handles[g].sessionCache

(* Properties of a cleanup that overlaps the use of the pool *)

\* destroy of pool p has begun: a cleanupSession is in its loop or past it
BeingDestroyed(p) ==
    \/ pools[p].status = "destroyed"
    \/ \E c \in Callers : tasks[c].op \in {"destroy", "cleanup"} /\ tasks[c].pool = p

\* destroy has called quit on the connection or has it in the array it is
\* shutting down
ShutDown(connection) ==
    \/ connection \in quitCalled
    \/ \E c \in Callers :
          /\ tasks[c].op = "destroy"
          /\ \E i \in DOMAIN tasks[c].connections : tasks[c].connections[i] = connection

\* C38 (SpecPools): a connection getConnection hands out is not one that
\* destroy has shut down or is shutting down, and the pool getSessionPool
\* returns is not one whose destroy has begun.
C38_NoUseAfterDestroy ==
    /\ (plRet.fn = "getConnection" /\ plRet.out = "return") => ~ShutDown(plRet.val)
    /\ (plRet.fn = "getSessionPool" /\ plRet.out = "return") => ~BeingDestroyed(plRet.val)

(* Properties of the connections a cleanup leaves behind *)

\* the connections createRedisClient has returned; under SpecPools every one
\* was created for the one session of PoolSessions
Created == 1..clients

\* C39 (SpecPools): when cleanupSession(s) has returned and no call is in
\* progress, every connection that was created on behalf of s has had its
\* quit called.
C39_EveryConnectionShutDown ==
    (/\ plRet.fn = "cleanupSession" /\ plRet.out = "return"
     /\ plRet.arg \in PoolSessions
     /\ \A c \in Callers : tasks[c] = Idle)
    => \A connection \in Created : connection \in quitCalled

(* Properties of a handle on a client of the caller *)

\* in this step useRedisAuthState is called with an existing client
OpensWithClient(h) == handles[h] = NoHandle /\ handles'[h] # NoHandle

\* a step of cleanupSession: its call, a quit of destroy, the end of destroy
\* or its return
CleanupStep ==
    \/ \E s \in SessionIds : CleanupBegins(s)
    \/ \E c \in Callers : tasks[c] # Idle /\ tasks[c].op \in {"destroy", "cleanup"} /\ tasks'[c] # tasks[c]

\* the client the caller passed is none of the connections a pool made
CallersClient == Foreign

\* C40 (SpecIsolation): a useRedisAuthState that is given an existing client
\* creates and registers no pool and takes no connection of a pool; the store
\* changes only by the commands sent on the client of a handle; no step of
\* cleanupSession touches the handle, its client's requests or the store, and
\* quit is never called on the caller's client.
C40_ClientLeftAlone ==
    /\ [][\A h \in Handles : OpensWithClient(h) =>
            /\ pools' = pools
            /\ sessionPools' = sessionPools
            /\ clients' = clients
            /\ got' = got /\ held' = held]_vars
    /\ [][store' # store => \E h \in Handles : StoreStep(h)]_vars
    /\ [][CleanupStep => (conn' = conn /\ handles' = handles /\ store' = store)]_vars
    /\ [](CallersClient \notin quitCalled)

C40_Witness ==
    /\ IsReady(1) /\ handles[1].sessionId = "ab"
    /\ Len(conn[1]) > 0
    /\ store[HandleKey(handles[1], "creds")] # Null
    /\ plRet.fn = "cleanupSession" /\ plRet.arg = "ab" /\ plRet.val # 0
    /\ sessionPools["ab"] = 0
    /\ quitCalled # {}

====
